---- MODULE Spec2Model ----
(***************************************************************************)
(* Verification model of the FABRIC API MCP slice compiler                 *)
(* (tools/slices/create.py, tools/slices/modify.py) and of the record      *)
(* sort helper (utils/data_helpers.py).                                    *)
(*                                                                         *)
(* Python values are modelled as follows.  None and an absent dict key are *)
(* the string None; a raised ValueError is a result record with ok = FALSE *)
(* and err naming the raise site; a backend (FABlib) exception is the      *)
(* error "UpstreamFailure".                                                *)
(***************************************************************************)
EXTENDS Integers, Sequences, FiniteSets, TLC

VARIABLES
    fin,        \* arguments of the pure function under check
    fout,       \* its result, Pending before the call
    mode,       \* "build" (_build_and_submit_slice), "modify" (_modify_slice_resources)
    pc,         \* position of the pass in its straight-line code
    node_map,   \* node name -> node object (its site)
    switches_map,        \* switch name -> site
    facility_ports_map,  \* facility port name -> site
    node_nics,  \* NICs tracked for reuse: set of [node, name, cid]
    used_sites, \* sites already used by nodes of the slice
    slice,      \* the backend's slice object: components and services
    calls,      \* backend mutation calls made so far, in order
    cur,        \* the node or network spec being processed
    resolved,   \* NIC resolutions made so far, in order
    netlog,     \* network specs completed so far, in order
    added,      \* result lists of what was added
    removed,    \* result lists of what was removed
    err,        \* the error raised by the pass, "none" while it runs
    consumed,   \* number of input items consumed so far
    frames,     \* the local variables of each of two concurrent invocations
    events      \* what the concurrent invocations read and recorded, in order

passvars == <<mode, pc, node_map, switches_map, facility_ports_map, node_nics,
              used_sites, slice, calls, cur, resolved, netlog, added, removed,
              err, consumed>>

pairvars == <<frames, events>>

vars == <<fin, fout, passvars, pairvars>>

None == "None"

(***************************************************************************)
(* Catalogs (create.py:27-61)                                              *)
(***************************************************************************)
VALID_GPU_MODELS == {"GPU_TeslaT4", "GPU_RTX6000", "GPU_A40", "GPU_A30"}

VALID_NIC_MODELS == {"NIC_Basic", "NIC_ConnectX_5", "NIC_ConnectX_6",
                     "NIC_ConnectX_7_100", "NIC_ConnectX_7_400"}

VALID_STORAGE_MODELS == {"NVME_P4510"}

VALID_FPGA_MODELS == {"FPGA_Xilinx_U280", "FPGA_Xilinx_SN1022"}

VALID_COMPONENT_MODELS ==
    VALID_GPU_MODELS \cup VALID_NIC_MODELS \cup VALID_STORAGE_MODELS \cup VALID_FPGA_MODELS

VALID_L2_NETWORK_TYPES == {"L2PTP", "L2STS", "L2Bridge"}

VALID_L3_NETWORK_TYPES == {"FABNetv4", "FABNetv6", "IPv4", "IPv6",
                           "FABNetv4Ext", "FABNetv6Ext", "IPv4Ext", "IPv6Ext"}

VALID_NETWORK_TYPES == VALID_L2_NETWORK_TYPES \cup VALID_L3_NETWORK_TYPES

SMARTNIC_MODELS == {"NIC_ConnectX_5", "NIC_ConnectX_6",
                    "NIC_ConnectX_7_100", "NIC_ConnectX_7_400"}

DEFAULT_SMARTNIC == "NIC_ConnectX_6"

L3_TYPE_MAP(t) ==
    CASE t = "FABNetv4"    -> "IPv4"
      [] t = "FABNetv6"    -> "IPv6"
      [] t = "FABNetv4Ext" -> "IPv4Ext"
      [] t = "FABNetv6Ext" -> "IPv6Ext"
      [] OTHER             -> t

(***************************************************************************)
(* Results of operations that may raise                                    *)
(***************************************************************************)
Ok(v) == [ok |-> TRUE, val |-> v, err |-> "none"]

Raise(e) == [ok |-> FALSE, val |-> None, err |-> e]

Pending == [ok |-> FALSE, val |-> None, err |-> "pending"]

\* no concurrent invocations are modelled
PairIdle == frames = <<>> /\ events = <<>>

\* no pass is running (the specifications of the pure helpers)
PassIdle ==
    /\ mode = "none" /\ pc = "idle" /\ err = "none" /\ consumed = 0
    /\ node_map = <<>> /\ switches_map = <<>> /\ facility_ports_map = <<>>
    /\ node_nics = {} /\ used_sites = {} /\ slice = <<>> /\ calls = <<>>
    /\ cur = <<>> /\ resolved = <<>> /\ netlog = <<>>
    /\ added = <<>> /\ removed = <<>>

(***************************************************************************)
(* str.upper() on the type strings a request may carry.  Only mixed- and   *)
(* lower-case spellings change.                                            *)
(***************************************************************************)
Upper(s) ==
    CASE s = "l2"          -> "L2"
      [] s = "L2"          -> "L2"
      [] s = "l2ptp"       -> "L2PTP"
      [] s = "L2PTP"       -> "L2PTP"
      [] s = "L2STS"       -> "L2STS"
      [] s = "l2bridge"    -> "L2BRIDGE"
      [] s = "L2Bridge"    -> "L2BRIDGE"
      [] s = "FABNetv4"    -> "FABNETV4"
      [] s = "fabnetv4"    -> "FABNETV4"
      [] s = "FABNetv6"    -> "FABNETV6"
      [] s = "FABNetv4Ext" -> "FABNETV4EXT"
      [] s = "FABNetv6Ext" -> "FABNETV6EXT"
      [] s = "IPv4"        -> "IPV4"
      [] s = "IPv6"        -> "IPV6"
      [] s = "IPv4Ext"     -> "IPV4EXT"
      [] s = "IPv6Ext"     -> "IPV6EXT"
      [] s = "L3"          -> "L3"
      [] s = ""            -> ""
      [] OTHER             -> s

(***************************************************************************)
(* An ERO argument: absent (None) or a list of site hops.  Python's        *)
(* truth test `if ero` is false for None and for the empty list.           *)
(***************************************************************************)
NoEro == [given |-> FALSE, hops |-> <<>>]

EroOf(hops) == [given |-> TRUE, hops |-> hops]

EroTruthy(ero) == ero.given /\ Len(ero.hops) > 0

(***************************************************************************)
(* _determine_network_type (create.py:64-138)                              *)
(***************************************************************************)
DetermineNetworkType_Bridge(requested_type, sites, ero) ==
    LET single_site == Cardinality(sites) <= 1 IN
    IF EroTruthy(ero) THEN
        IF single_site THEN Raise("EroRequiresMultiSite") ELSE Ok("L2PTP")
    ELSE IF requested_type = None THEN
        Ok("L2Bridge")
    ELSE IF Upper(requested_type) = "L2" THEN
        Ok(IF single_site THEN "L2Bridge" ELSE "L2STS")
    ELSE IF requested_type = "L2Bridge" THEN
        IF ~single_site THEN Raise("L2BridgeSingleSiteOnly") ELSE Ok("L2Bridge")
    ELSE IF requested_type = "L2PTP" THEN
        IF single_site THEN Raise("L2PTPRequiresMultiSite") ELSE Ok("L2STS")
    ELSE IF requested_type \in VALID_NETWORK_TYPES THEN
        Ok(requested_type)
    ELSE Raise("UnknownNetworkType")

DetermineNetworkType_KeepPTP(requested_type, sites, ero) ==
    LET single_site == Cardinality(sites) <= 1 IN
    IF EroTruthy(ero) THEN
        IF single_site THEN Raise("EroRequiresMultiSite") ELSE Ok("L2PTP")
    ELSE IF requested_type = None THEN
        Ok(IF single_site THEN "L2Bridge" ELSE "FABNetv4")
    ELSE IF Upper(requested_type) = "L2" THEN
        Ok(IF single_site THEN "L2Bridge" ELSE "L2STS")
    ELSE IF requested_type = "L2Bridge" THEN
        IF ~single_site THEN Raise("L2BridgeSingleSiteOnly") ELSE Ok("L2Bridge")
    ELSE IF requested_type \in VALID_NETWORK_TYPES THEN
        Ok(requested_type)
    ELSE Raise("UnknownNetworkType")

DetermineNetworkType_NoCatalog(requested_type, sites, ero) ==
    LET single_site == Cardinality(sites) <= 1 IN
    IF EroTruthy(ero) THEN
        IF single_site THEN Raise("EroRequiresMultiSite") ELSE Ok("L2PTP")
    ELSE IF requested_type = None THEN
        Ok(IF single_site THEN "L2Bridge" ELSE "FABNetv4")
    ELSE IF Upper(requested_type) = "L2" THEN
        Ok(IF single_site THEN "L2Bridge" ELSE "L2STS")
    ELSE IF requested_type = "L2Bridge" THEN
        IF ~single_site THEN Raise("L2BridgeSingleSiteOnly") ELSE Ok("L2Bridge")
    ELSE IF requested_type = "L2PTP" THEN
        IF single_site THEN Raise("L2PTPRequiresMultiSite") ELSE Ok("L2STS")
    ELSE Ok(requested_type)

DetermineNetworkType(requested_type, sites, ero) ==
    LET single_site == Cardinality(sites) <= 1 IN
    IF EroTruthy(ero) THEN
        IF single_site THEN Raise("EroRequiresMultiSite") ELSE Ok("L2PTP")
    ELSE IF requested_type = None THEN
        Ok(IF single_site THEN "L2Bridge" ELSE "FABNetv4")
    ELSE IF Upper(requested_type) = "L2" THEN
        Ok(IF single_site THEN "L2Bridge" ELSE "L2STS")
    ELSE IF requested_type = "L2Bridge" THEN
        IF ~single_site THEN Raise("L2BridgeSingleSiteOnly") ELSE Ok("L2Bridge")
    ELSE IF requested_type = "L2PTP" THEN
        IF single_site THEN Raise("L2PTPRequiresMultiSite") ELSE Ok("L2STS")
    ELSE IF requested_type \in VALID_NETWORK_TYPES THEN
        Ok(requested_type)
    ELSE Raise("UnknownNetworkType")

(***************************************************************************)
(* Specification SpecType: the network-type resolver on bounded inputs     *)
(***************************************************************************)
TypeSites == {"X", "Y", "Z"}

ReqTypes == VALID_NETWORK_TYPES \cup {None, "L2", "l2", "l2ptp", "l2bridge", "fabnetv4", "L3", ""}

EroArgs == {NoEro, EroOf(<<>>), EroOf(<<"X">>), EroOf(<<"X", "Y">>)}

TypeInit ==
    /\ PassIdle /\ PairIdle
    /\ fin \in [requested : ReqTypes, sites : SUBSET TypeSites, ero : EroArgs]
    /\ fout = Pending

ResolveType ==
    /\ fout = Pending
    /\ fout' = DetermineNetworkType(fin.requested, fin.sites, fin.ero)
    /\ UNCHANGED <<fin, passvars, pairvars>>

TypeNext == ResolveType

SpecType == TypeInit /\ [][TypeNext]_vars

Resolved == fout # Pending

\* C2: with a non-empty route-hop list, resolution fails unless the network
\* spans exactly 2 distinct sites, and returns L2PTP when it spans exactly 2,
\* whatever the requested type.
C2_EroExactlyTwoSites ==
    (Resolved /\ EroTruthy(fin.ero)) =>
        IF Cardinality(fin.sites) = 2
        THEN fout = Ok("L2PTP")
        ELSE ~fout.ok

\* C3: with no requested type and no route hops the resolver returns L2Bridge
\* iff the site set has at most one site, and FABNetv4 otherwise.
C3_DefaultType ==
    (Resolved /\ fin.requested = None /\ ~EroTruthy(fin.ero)) =>
        /\ fout.ok
        /\ (fout.val = "L2Bridge") <=> (Cardinality(fin.sites) <= 1)
        /\ (Cardinality(fin.sites) > 1) => fout.val = "FABNetv4"

C3_Witness ==
    /\ Resolved /\ fin.requested = None /\ ~EroTruthy(fin.ero)
    /\ Cardinality(fin.sites) = 2 /\ fout = Ok("FABNetv4")

\* C4: requested "L2PTP" without route hops fails (L2PTP requires multi-site,
\* an InvalidTopology error) on at most one site and returns L2STS, never
\* L2PTP, on more than one site.
C4_L2PTPWithoutEro ==
    (Resolved /\ fin.requested = "L2PTP" /\ ~EroTruthy(fin.ero)) =>
        IF Cardinality(fin.sites) <= 1
        THEN fout = Raise("L2PTPRequiresMultiSite")
        ELSE fout = Ok("L2STS")

C4_Witness ==
    /\ Resolved /\ fin.requested = "L2PTP" /\ ~EroTruthy(fin.ero)
    /\ Cardinality(fin.sites) = 3 /\ fout = Ok("L2STS")

\* C5: without route hops, a catalog type other than L2Bridge and L2PTP is
\* returned unchanged at every site count; L2Bridge is returned for a
\* single-site network and fails for a multi-site one; a string that is not
\* in the catalog and not a case-insensitive "L2" fails with
\* UnknownNetworkType; every successful resolution is a catalog type.
C5_PassThroughAndUnknown ==
    (Resolved /\ fin.requested # None /\ ~EroTruthy(fin.ero)) =>
        /\ (fin.requested \in VALID_NETWORK_TYPES \ {"L2Bridge", "L2PTP"})
               => fout = Ok(fin.requested)
        /\ (fin.requested = "L2Bridge")
               => fout = (IF Cardinality(fin.sites) <= 1
                          THEN Ok("L2Bridge") ELSE Raise("L2BridgeSingleSiteOnly"))
        /\ (fin.requested \notin VALID_NETWORK_TYPES \cup {"L2", "l2"})
               => fout = Raise("UnknownNetworkType")
        /\ fout.ok => fout.val \in VALID_NETWORK_TYPES

C5_Witness ==
    /\ Resolved /\ ~EroTruthy(fin.ero)
    /\ fin.requested = "l2ptp" /\ fout = Raise("UnknownNetworkType")

(***************************************************************************)
(* Records of the sort helper.  A record either lacks the sort field       *)
(* (has = FALSE), carries it with the value None (isnone = TRUE), or       *)
(* carries an integer v.  id is the record's position in the input.        *)
(***************************************************************************)
MaxLen == 3

SortValues == {1, 2}

FieldCells ==
    {[has |-> FALSE, isnone |-> FALSE, v |-> 0], [has |-> TRUE, isnone |-> TRUE, v |-> 0]}
    \cup {[has |-> TRUE, isnone |-> FALSE, v |-> x] : x \in SortValues}

RecordLists ==
    UNION {{[i \in 1..n |-> [id |-> i, cell |-> c[i]]] : c \in [1..n -> FieldCells]}
           : n \in 0..MaxLen}

\* r.get(field): the value, or None when the key is absent
FieldIsNone(r, field) == field # "v" \/ ~r.cell.has \/ r.cell.isnone

FieldValue(r, field) == IF FieldIsNone(r, field) THEN 0 ELSE r.cell.v

\* str.lower() on the direction strings a request may carry
Lower(s) ==
    CASE s = "DESC" -> "desc"
      [] s = "Desc" -> "desc"
      [] s = "ASC"  -> "asc"
      [] OTHER      -> s

\* the sort key (r.get(field) is None, r.get(field)), compared as Python
\* compares tuples, with False < True
KeyLess(a, b, field) ==
    LET an == FieldIsNone(a, field)
        bn == FieldIsNone(b, field)
    IN  \/ (~an /\ bn)
        \/ (an = bn /\ ~an /\ FieldValue(a, field) < FieldValue(b, field))

\* x precedes y in the order sorted() produces; reverse exchanges the sides
\* of every comparison and keeps equal keys in input order
Precedes(x, y, field, reverse) ==
    IF reverse THEN KeyLess(y, x, field) ELSE KeyLess(x, y, field)

RECURSIVE InsertStable(_, _, _, _)
InsertStable(sorted, x, field, reverse) ==
    IF sorted = <<>> THEN <<x>>
    ELSE IF Precedes(x, Head(sorted), field, reverse)
         THEN <<x>> \o sorted
         ELSE <<Head(sorted)>> \o InsertStable(Tail(sorted), x, field, reverse)

RECURSIVE Sorted(_, _, _)
Sorted(items, field, reverse) ==
    IF items = <<>> THEN <<>>
    ELSE InsertStable(Sorted(SubSeq(items, 1, Len(items) - 1), field, reverse),
                      items[Len(items)], field, reverse)

(***************************************************************************)
(* apply_sort (utils/data_helpers.py:235-254)                              *)
(***************************************************************************)
NoSort == [isdict |-> FALSE, field |-> None, direction |-> None]

SortSpecs ==
    {NoSort} \cup [isdict : {TRUE}, field : {None, "", "v", "w"},
                   direction : {None, "asc", "desc", "DESC", "Desc", "up"}]

apply_sort(items, sort) ==
    IF ~sort.isdict THEN items
    ELSE IF sort.field = None \/ sort.field = "" THEN items
    ELSE LET direction == Lower(IF sort.direction = None THEN "asc" ELSE sort.direction)
             reverse   == direction = "desc"
         IN  Sorted(items, sort.field, reverse)

(***************************************************************************)
(* Specification SpecSort: apply_sort on bounded record lists              *)
(***************************************************************************)
SortInit ==
    /\ PassIdle /\ PairIdle
    /\ fin \in [items : RecordLists, sort : SortSpecs]
    /\ fout = Pending

ApplySort ==
    /\ fout = Pending
    /\ fout' = Ok(apply_sort(fin.items, fin.sort))
    /\ UNCHANGED <<fin, passvars, pairvars>>

SortNext == ApplySort

SpecSort == SortInit /\ [][SortNext]_vars

SortActs == fin.sort.isdict /\ fin.sort.field \notin {None, ""}

\* C10: in the output of a sort by a field, every record whose sort field is
\* absent (None or missing) comes after every record whose sort field is
\* present, for direction asc and for direction desc (case-insensitively).
C10_AbsentLast ==
    (fout # Pending /\ SortActs) =>
        \A i, j \in 1..Len(fout.val) :
            (FieldIsNone(fout.val[i], fin.sort.field)
             /\ ~FieldIsNone(fout.val[j], fin.sort.field)) => j < i

(***************************************************************************)
(* The slice compiler: one build pass (_build_and_submit_slice) or one     *)
(* modify pass (_modify_slice_resources) against the FABlib backend.       *)
(* The input lists are consumed element by element, as the code's loops    *)
(* read them; MaxItems bounds the number of list elements of one request.  *)
(* The server runs with config.local_mode off, so set_mode is not called.  *)
(***************************************************************************)
MaxItems == 6

MaxRemovals == 2

NodeNames == {"a", "b"}

\* the prefetched list_sites snapshot (_get_available_sites)
AvailableSites ==
    {[name |-> "X", cores_available |-> 8, ram_available |-> 64, disk_available |-> 500],
     [name |-> "Y", cores_available |-> 8, ram_available |-> 64, disk_available |-> 500]}

\* the selector without its preference for unused sites
SelectSiteForNode_IgnoreUsed(available_sites, cores, ram, disk, used) ==
    LET suitable_sites == {s \in available_sites :
                              /\ s.cores_available >= cores
                              /\ s.ram_available >= ram
                              /\ s.disk_available >= disk}
    IN  {s.name : s \in suitable_sites}

\* _select_site_for_node (create.py:368-403): the sites random.choice may
\* return, empty when the function raises
SelectSiteForNode(available_sites, cores, ram, disk, used) ==
    LET suitable_sites == {s \in available_sites :
                              /\ s.cores_available >= cores
                              /\ s.ram_available >= ram
                              /\ s.disk_available >= disk}
        unused_sites == {s \in suitable_sites : s.name \notin used}
    IN  IF suitable_sites = {} THEN {}
        ELSE IF unused_sites # {} THEN {s.name : s \in unused_sites}
        ELSE {s.name : s \in suitable_sites}

(***************************************************************************)
(* The backend.  A slice object holds node, switch, facility-port and      *)
(* service names and the components of its nodes.  Names are unique within *)
(* their collection: a second add under a used name raises, as does any    *)
(* mutation call the backend fails for reasons of its own (UpstreamFailure).*)
(* get_component finds a component exactly when the node holds one of that *)
(* name.  Every component has an identity cid.                             *)
(***************************************************************************)
EmptySlice ==
    [nodes |-> {}, switches |-> {}, services |-> {}, comps |-> {}, nextcid |-> 1]

\* the slice a modify pass finds: node a at X with SmartNIC nic1, switch s0,
\* network n0 and port mirror m0
ExistingSlice ==
    [nodes |-> {"a"}, switches |-> {"s0"}, services |-> {"n0", "m0"},
     comps |-> {[node |-> "a", name |-> "nic1", model |-> "NIC_ConnectX_6",
                 cid |-> 1]},
     nextcid |-> 2]

ExistingNodes == "a" :> [site |-> "X"]

NoIfaces == <<>>

Call(op, at, a, b, c, ifaces, ok) ==
    [op |-> op, at |-> at, a |-> a, b |-> b, c |-> c, ifaces |-> ifaces, ok |-> ok]

EmptyLists ==
    [nodes |-> <<>>, components |-> <<>>, switches |-> <<>>,
     facility_ports |-> <<>>, networks |-> <<>>, port_mirrors |-> <<>>]

NoCur == [kind |-> "none"]

(***************************************************************************)
(* Order of the stages of a pass (create.py:447-712, modify.py:110-492)    *)
(***************************************************************************)
\* the mutant of BuildStages creates the switches before the nodes
BuildStages_SwitchesFirst ==
    <<"switches", "nodes", "facility_ports", "networks", "port_mirrors", "submit">>

BuildStages ==
    <<"nodes", "switches", "facility_ports", "networks", "port_mirrors", "submit">>

\* the mutant of ModifyStages adds the new nodes before it removes anything
ModifyStages_NodesFirst ==
    <<"nodes", "rm_port_mirrors", "rm_networks", "rm_facility_ports",
      "rm_switches", "rm_components", "rm_nodes",
      "add_components", "switches", "facility_ports", "networks",
      "port_mirrors", "submit">>

ModifyStages ==
    <<"rm_port_mirrors", "rm_networks", "rm_facility_ports", "rm_switches",
      "rm_components", "rm_nodes",
      "nodes", "add_components", "switches", "facility_ports", "networks",
      "port_mirrors", "submit">>

Stages(m) == IF m = "build" THEN BuildStages ELSE ModifyStages

StageIndex(m, p) == CHOOSE i \in 1..Len(Stages(m)) : Stages(m)[i] = p

StageAfter(m, p) == Stages(m)[StageIndex(m, p) + 1]

RemoveStages == {"rm_port_mirrors", "rm_networks", "rm_facility_ports",
                 "rm_switches", "rm_components", "rm_nodes"}

ListStages == {ModifyStages[i] : i \in 1..Len(ModifyStages)} \ {"submit"}

\* the mutant of Propagate swallows the exception
Propagate_Swallow(e, next) == next

\* an exception raised by a step propagates out of the pass; otherwise the
\* pass goes on at position next
Propagate(e, next) == IF e # "none" THEN "failed" ELSE next

PassInit ==
    /\ fin = None /\ fout = Pending
    /\ PairIdle
    /\ mode \in {"build", "modify"}
    /\ pc = Stages(mode)[1]
    /\ node_map = (IF mode = "build" THEN <<>> ELSE ExistingNodes)
    /\ switches_map = <<>>
    /\ facility_ports_map = <<>>
    /\ node_nics = {}
    /\ used_sites = {node_map[n].site : n \in DOMAIN node_map}
    /\ slice = (IF mode = "build" THEN EmptySlice ELSE ExistingSlice)
    /\ calls = <<>>
    /\ cur = NoCur
    /\ resolved = <<>>
    /\ netlog = <<>>
    /\ added = EmptyLists
    /\ removed = EmptyLists
    /\ err = "none"
    /\ consumed = 0

Left == MaxItems - consumed

\* MaxRemovals bounds the number of entries of the remove lists of one request
RemovalsLeft == IF consumed < MaxRemovals THEN MaxRemovals - consumed ELSE 0

\* the for loop of the current stage has no further element
EndList ==
    /\ pc \in ListStages
    /\ pc' = StageAfter(mode, pc)
    /\ UNCHANGED <<pairvars, fin, fout, mode, node_map, switches_map, facility_ports_map,
                   node_nics, used_sites, slice, calls, cur, resolved, netlog,
                   added, removed, err, consumed>>

(***************************************************************************)
(* Remove operations of a modify pass (modify.py:110-208)                  *)
(***************************************************************************)
RemoveServiceNames == {"n0", "zz"}

RemoveSwitchNames == {"s0", "zz"}

RemoveNodeNames == {"a", "zz"}

RemoveCompSpecs ==
    {[node |-> "a", name |-> "nic1"], [node |-> "a", name |-> "zz"],
     [node |-> "zz", name |-> "nic1"], [node |-> "a", name |-> None]}

ServiceKind(p) ==
    CASE p = "rm_port_mirrors"    -> "port_mirrors"
      [] p = "rm_networks"        -> "networks"
      [] p = "rm_facility_ports"  -> "facility_ports"

\* the mutant of Removed records an entry whether or not its delete succeeded
Removed_Always(r, kind, entry, deleted) == [r EXCEPT ![kind] = Append(@, entry)]

\* removed_<kind>.append(entry), reached only when delete() returned
Removed(r, kind, entry, deleted) ==
    IF deleted THEN [r EXCEPT ![kind] = Append(@, entry)] ELSE r

\* port mirrors, networks and facility ports are all looked up with
\* slice_obj.get_network(name) and deleted inside try/except
RemoveService ==
    /\ pc \in {"rm_port_mirrors", "rm_networks", "rm_facility_ports"}
    /\ RemovalsLeft > 0
    /\ \E name \in RemoveServiceNames, deleted \in BOOLEAN :
        LET kind == ServiceKind(pc) IN
        IF name \in slice.services
        THEN /\ calls' = Append(calls, Call("delete", pc, kind, name, None, NoIfaces, deleted))
             /\ slice' = IF deleted
                         THEN [slice EXCEPT !.services = @ \ {name}] ELSE slice
             /\ removed' = Removed(removed, kind, name, deleted)
        ELSE /\ deleted = FALSE
             /\ UNCHANGED <<calls, slice, removed>>
    /\ consumed' = consumed + 1
    /\ UNCHANGED <<pairvars, fin, fout, mode, pc, node_map, switches_map, facility_ports_map,
                   node_nics, used_sites, cur, resolved, netlog, added, err>>

\* switches are looked up with slice_obj.get_node(name)
RemoveSwitch ==
    /\ pc = "rm_switches"
    /\ RemovalsLeft > 0
    /\ \E name \in RemoveSwitchNames, deleted \in BOOLEAN :
        IF name \in slice.switches
        THEN /\ calls' = Append(calls, Call("delete", pc, "switches", name, None, NoIfaces, deleted))
             /\ slice' = IF deleted
                         THEN [slice EXCEPT !.switches = @ \ {name}] ELSE slice
             /\ removed' = Removed(removed, "switches", name, deleted)
        ELSE /\ deleted = FALSE
             /\ UNCHANGED <<calls, slice, removed>>
    /\ consumed' = consumed + 1
    /\ UNCHANGED <<pairvars, fin, fout, mode, pc, node_map, switches_map, facility_ports_map,
                   node_nics, used_sites, cur, resolved, netlog, added, err>>

\* an entry without node or name raises outside the try (modify.py:175-176)
RemoveComponent ==
    /\ pc = "rm_components"
    /\ RemovalsLeft > 0
    /\ \E comp_spec \in RemoveCompSpecs, deleted \in BOOLEAN :
        LET found == \E c \in slice.comps :
                        c.node = comp_spec.node /\ c.name = comp_spec.name
            e == IF comp_spec.node = None \/ comp_spec.name = None
                 THEN "RemoveComponentMissingField" ELSE "none"
        IN
        /\ err' = e
        /\ pc' = Propagate(e, pc)
        /\ IF e = "none" /\ comp_spec.node \in DOMAIN node_map /\ found
           THEN /\ calls' = Append(calls, Call("delete", pc, "components",
                                               comp_spec.node, comp_spec.name,
                                               NoIfaces, deleted))
                /\ slice' = IF deleted
                            THEN [slice EXCEPT !.comps =
                                    {c \in @ : ~(c.node = comp_spec.node
                                                 /\ c.name = comp_spec.name)}]
                            ELSE slice
                /\ removed' = Removed(removed, "components",
                                       <<comp_spec.node, comp_spec.name>>, deleted)
           ELSE /\ deleted = FALSE
                /\ UNCHANGED <<calls, slice, removed>>
    /\ consumed' = consumed + 1
    /\ UNCHANGED <<pairvars, fin, fout, mode, node_map, switches_map, facility_ports_map,
                   node_nics, used_sites, cur, resolved, netlog, added>>

RemoveNode ==
    /\ pc = "rm_nodes"
    /\ RemovalsLeft > 0
    /\ \E node_name \in RemoveNodeNames, deleted \in BOOLEAN :
        IF node_name \in DOMAIN node_map
        THEN /\ calls' = Append(calls, Call("delete", pc, "nodes", node_name, None,
                                            NoIfaces, deleted))
             /\ slice' = IF deleted
                         THEN [slice EXCEPT !.nodes = @ \ {node_name},
                                            !.comps = {c \in @ : c.node # node_name}]
                         ELSE slice
             /\ node_map' = IF deleted
                            THEN [n \in DOMAIN node_map \ {node_name} |-> node_map[n]]
                            ELSE node_map
             /\ removed' = Removed(removed, "nodes", node_name, deleted)
        ELSE /\ deleted = FALSE
             /\ UNCHANGED <<calls, slice, node_map, removed>>
    /\ consumed' = consumed + 1
    /\ UNCHANGED <<pairvars, fin, fout, mode, pc, switches_map, facility_ports_map,
                   node_nics, used_sites, cur, resolved, netlog, added, err>>

(***************************************************************************)
(* Add operations: nodes with their components and fabnet request          *)
(* (create.py:447-498, modify.py:213-267)                                  *)
(***************************************************************************)
CompSpecs ==
    {[model |-> "FPGA_Xilinx_U280", name |-> "fpga1"],
     [model |-> "GPU_Unknown", name |-> None]}

CompLists == {<<>>} \cup {<<c>> : c \in CompSpecs}

Placements ==
    {[site |-> "X", cores |-> 2], [site |-> None, cores |-> 2],
     [site |-> None, cores |-> 64]}

\* ram and disk take their defaults (node_spec.get("ram", 8), get("disk", 10))
NodeBodies ==
    {[components |-> cl, fabnet |-> None] : cl \in CompLists}
    \cup {[components |-> <<>>, fabnet |-> "IPv4"]}

NodeSpecs ==
    {[name |-> n, site |-> p.site, cores |-> p.cores, ram |-> 8, disk |-> 10,
      components |-> b.components, fabnet |-> b.fabnet] :
        n \in NodeNames, p \in Placements, b \in NodeBodies}

NodeCost(node_spec) ==
    1 + Len(node_spec.components) + (IF node_spec.fabnet # None THEN 1 ELSE 0)

\* the backend's add_component: the name must be new on the node and the
\* model one the backend knows
BackendAccepts(node_name, comp_name, model) ==
    /\ model \in VALID_COMPONENT_MODELS
    /\ ~\E c \in slice.comps : c.node = node_name /\ c.name = comp_name

NewComp(node_name, comp_name, model) ==
    [node |-> node_name, name |-> comp_name, model |-> model,
     cid |-> slice.nextcid]

AfterNodeBody(components, fabnet) ==
    IF components = <<>> /\ fabnet = None THEN "nodes" ELSE "node_body"

AddNode ==
    /\ pc = "nodes"
    /\ \E node_spec \in NodeSpecs, up \in BOOLEAN :
        /\ NodeCost(node_spec) <= Left
        /\ consumed' = consumed + NodeCost(node_spec)
        /\ LET node_name == node_spec.name
               exists == mode = "modify" /\ node_name \in DOMAIN node_map
               choices == IF node_spec.site # None THEN {node_spec.site}
                          ELSE SelectSiteForNode(AvailableSites, node_spec.cores,
                                                 node_spec.ram, node_spec.disk, used_sites)
           IN
           IF exists \/ choices = {}
           THEN /\ up = TRUE
                /\ err' = (IF exists THEN "NodeAlreadyExists" ELSE "NoFeasibleSite")
                /\ pc' = Propagate(err', pc)
                /\ UNCHANGED <<node_map, used_sites, slice, calls, cur, added>>
           ELSE \E site \in choices :
                LET ok == up /\ node_name \notin slice.nodes IN
                /\ calls' = Append(calls, Call("add_node", pc, node_name, site, None,
                                               NoIfaces, ok))
                /\ err' = (IF ok THEN "none" ELSE "UpstreamFailure")
                /\ pc' = Propagate(err', AfterNodeBody(node_spec.components, node_spec.fabnet))
                /\ used_sites' = (IF ok \/ mode = "build"
                                  THEN used_sites \cup {site} ELSE used_sites)
                /\ IF ok
                   THEN /\ node_map' = (node_name :> [site |-> site]) @@ node_map
                        /\ slice' = [slice EXCEPT !.nodes = @ \cup {node_name}]
                        /\ added' = [added EXCEPT !.nodes = Append(@, node_name)]
                        /\ cur' = [kind |-> "node", name |-> node_name, i |-> 0,
                                   components |-> node_spec.components,
                                   fabnet |-> node_spec.fabnet]
                   ELSE UNCHANGED <<node_map, slice, added, cur>>
    /\ UNCHANGED <<pairvars, fin, fout, mode, switches_map, facility_ports_map, node_nics,
                   resolved, netlog, removed>>

\* the next component of the node just added
NodeComponent ==
    /\ pc = "node_body"
    /\ cur.components # <<>>
    /\ \E up \in BOOLEAN :
        LET comp_spec == Head(cur.components)
            model == comp_spec.model
            comp_name == IF comp_spec.name # None THEN comp_spec.name
                         ELSE cur.name \o "-" \o model \o "-" \o ToString(cur.i)
            rest == Tail(cur.components)
        IN
        IF model \notin VALID_COMPONENT_MODELS
        THEN /\ up = TRUE
             /\ err' = "UnknownComponentModel"
             /\ pc' = Propagate(err', pc)
             /\ UNCHANGED <<slice, calls, cur, added>>
        ELSE LET ok == up /\ BackendAccepts(cur.name, comp_name, model) IN
             /\ calls' = Append(calls, Call("add_component", "nodes", cur.name, comp_name,
                                            model, NoIfaces, ok))
             /\ err' = (IF ok THEN "none" ELSE "UpstreamFailure")
             /\ pc' = Propagate(err', AfterNodeBody(rest, cur.fabnet))
             /\ IF ok
                THEN /\ slice' = [slice EXCEPT
                                    !.comps = @ \cup {NewComp(cur.name, comp_name, model)},
                                    !.nextcid = @ + 1]
                     /\ added' = [added EXCEPT !.components =
                                    Append(@, <<cur.name, comp_name>>)]
                     /\ cur' = [cur EXCEPT !.components = rest, !.i = @ + 1]
                ELSE UNCHANGED <<slice, added, cur>>
    /\ UNCHANGED <<pairvars, fin, fout, mode, node_map, switches_map, facility_ports_map,
                   node_nics, used_sites, resolved, netlog, removed, consumed>>

\* the per-node FABNet request, after the node's components
NodeFabnet ==
    /\ pc = "node_body"
    /\ cur.components = <<>>
    /\ cur.fabnet # None
    /\ \E ok \in BOOLEAN :
        /\ calls' = Append(calls, Call("add_fabnet", "nodes", cur.name, cur.fabnet, None,
                                       NoIfaces, ok))
        /\ err' = (IF ok THEN "none" ELSE "UpstreamFailure")
        /\ pc' = Propagate(err', "nodes")
    /\ UNCHANGED <<pairvars, fin, fout, mode, node_map, switches_map, facility_ports_map,
                   node_nics, used_sites, slice, cur, resolved, netlog, added,
                   removed, consumed>>

(***************************************************************************)
(* Components added to existing nodes (modify.py:269-293)                  *)
(***************************************************************************)
AddCompSpecs ==
    {[node |-> "a", model |-> c.model, name |-> c.name] : c \in CompSpecs}
    \cup {[node |-> "zz", model |-> "NIC_Basic", name |-> None],
          [node |-> None, model |-> None, name |-> None]}

AddComponent ==
    /\ pc = "add_components"
    /\ Left > 0
    /\ consumed' = consumed + 1
    /\ \E comp_spec \in AddCompSpecs, up \in BOOLEAN :
        LET node_name == comp_spec.node
            model == comp_spec.model
            comp_name == IF comp_spec.name # None THEN comp_spec.name
                         ELSE node_name \o "-" \o model \o "-new"
            e == IF node_name = None THEN "ComponentMissingNode"
                 ELSE IF model = None THEN "ComponentMissingModel"
                 ELSE IF node_name \notin DOMAIN node_map THEN "UnknownNode"
                 ELSE IF model \notin VALID_COMPONENT_MODELS THEN "UnknownComponentModel"
                 ELSE "none"
        IN
        IF e # "none"
        THEN /\ up = TRUE
             /\ err' = e
             /\ pc' = Propagate(e, pc)
             /\ UNCHANGED <<slice, calls, added>>
        ELSE LET ok == up /\ BackendAccepts(node_name, comp_name, model) IN
             /\ calls' = Append(calls, Call("add_component", pc, node_name, comp_name,
                                            model, NoIfaces, ok))
             /\ err' = (IF ok THEN "none" ELSE "UpstreamFailure")
             /\ pc' = Propagate(err', pc)
             /\ IF ok
                THEN /\ slice' = [slice EXCEPT
                                    !.comps = @ \cup {NewComp(node_name, comp_name, model)},
                                    !.nextcid = @ + 1]
                     /\ added' = [added EXCEPT !.components =
                                    Append(@, <<node_name, comp_name>>)]
                ELSE UNCHANGED <<slice, added>>
    /\ UNCHANGED <<pairvars, fin, fout, mode, node_map, switches_map, facility_ports_map,
                   node_nics, used_sites, cur, resolved, netlog, removed>>

(***************************************************************************)
(* Switches and facility ports (create.py:503-524, modify.py:295-318)      *)
(***************************************************************************)
SwitchSpecs == {[name |-> "s1", site |-> "Y"]}

FacilityPortSpecs == {[name |-> "fp1", site |-> "Y", vlan |-> "100"]}

AddSwitch ==
    /\ pc = "switches"
    /\ Left > 0
    /\ consumed' = consumed + 1
    /\ \E sw_spec \in SwitchSpecs, up \in BOOLEAN :
        LET ok == up /\ sw_spec.name \notin slice.switches IN
        /\ calls' = Append(calls, Call("add_switch", pc, sw_spec.name, sw_spec.site, None,
                                       NoIfaces, ok))
        /\ err' = (IF ok THEN "none" ELSE "UpstreamFailure")
        /\ pc' = Propagate(err', pc)
        /\ IF ok
           THEN /\ switches_map' = (sw_spec.name :> [site |-> sw_spec.site]) @@ switches_map
                /\ slice' = [slice EXCEPT !.switches = @ \cup {sw_spec.name}]
                /\ added' = [added EXCEPT !.switches = Append(@, sw_spec.name)]
           ELSE UNCHANGED <<switches_map, slice, added>>
    /\ UNCHANGED <<pairvars, fin, fout, mode, node_map, facility_ports_map, node_nics,
                   used_sites, cur, resolved, netlog, removed>>

AddFacilityPort ==
    /\ pc = "facility_ports"
    /\ Left > 0
    /\ consumed' = consumed + 1
    /\ \E fp_spec \in FacilityPortSpecs, up \in BOOLEAN :
        LET ok == up /\ fp_spec.name \notin DOMAIN facility_ports_map IN
        /\ calls' = Append(calls, Call("add_facility_port", pc, fp_spec.name, fp_spec.site,
                                       fp_spec.vlan, NoIfaces, ok))
        /\ err' = (IF ok THEN "none" ELSE "UpstreamFailure")
        /\ pc' = Propagate(err', pc)
        /\ IF ok
           THEN /\ facility_ports_map' =
                       (fp_spec.name :> [site |-> fp_spec.site]) @@ facility_ports_map
                /\ added' = [added EXCEPT !.facility_ports = Append(@, fp_spec.name)]
           ELSE UNCHANGED <<facility_ports_map, added>>
    /\ UNCHANGED <<pairvars, fin, fout, mode, node_map, switches_map, node_nics, used_sites,
                   slice, cur, resolved, netlog, removed>>

Submit ==
    /\ pc = "submit"
    /\ \E ok \in BOOLEAN :
        /\ calls' = Append(calls, Call("submit", pc, "wait=False", None, None, NoIfaces, ok))
        /\ err' = (IF ok THEN "none" ELSE "UpstreamFailure")
        /\ pc' = Propagate(err', "done")
    /\ UNCHANGED <<pairvars, fin, fout, mode, node_map, switches_map, facility_ports_map,
                   node_nics, used_sites, slice, cur, resolved, netlog, added,
                   removed, consumed>>


(***************************************************************************)
(* Interface specs and their resolution (create.py:141-325).  A key that   *)
(* is absent from the dict is None here.                                   *)
(***************************************************************************)
ISpec(node, switch, facility_port, component, nic, port, nic_model, vlan) ==
    [node |-> node, switch |-> switch, facility_port |-> facility_port,
     component |-> component, nic |-> nic, port |-> port,
     nic_model |-> nic_model, vlan |-> vlan]

\* {"node": n}, also what the "nodes" shorthand expands to
Plain(n) == ISpec(n, None, None, None, None, 0, None, None)

Iface(kind, owner, cid, port, site, vlan) ==
    [kind |-> kind, owner |-> owner, cid |-> cid, port |-> port, site |-> site,
     vlan |-> vlan]

\* len(x.get_interfaces()) of a component of the given model or of a switch
PortCount(model) ==
    CASE model \in SMARTNIC_MODELS   -> 2
      [] model = "NIC_Basic"         -> 1
      [] model \in VALID_FPGA_MODELS -> 2
      [] model = "P4_Switch"         -> 2
      [] OTHER                       -> 0

\* the calls a step makes, up to and including the one that raises
Execute(planned, fail) ==
    IF fail \in 1..Len(planned)
    THEN SubSeq(planned, 1, fail - 1) \o <<[planned[fail] EXCEPT !.ok = FALSE]>>
    ELSE planned

Raised(cs) == cs # <<>> /\ ~cs[Len(cs)].ok

Resolution(e, iface, cs, sl, nn) ==
    [e |-> e, iface |-> iface, calls |-> cs, slice |-> sl, node_nics |-> nn]

Unresolved(e) == Resolution(e, None, <<>>, slice, node_nics)

\* interfaces[port] of a component, then the optional VLAN sub-interface
Attach(component, kind, iface_spec, site, cs, sl, nn, fail, at) ==
    LET port == iface_spec.port
        vlan == iface_spec.vlan
        n == PortCount(component.model)
    IN  IF port >= n THEN Resolution("PortOutOfRange", None, cs, sl, nn)
        ELSE IF port < 0 /\ n + port < 0 THEN Resolution("IndexError", None, cs, sl, nn)
        ELSE LET p == IF port < 0 THEN n + port ELSE port
                 iface == Iface(kind, component.node, component.cid, p, site, None)
             IN  IF vlan = None THEN Resolution("none", iface, cs, sl, nn)
                 ELSE LET ok == fail # Len(cs) + 1
                          sub == Call("add_sub_interface", at, component.node,
                                      component.name, vlan, NoIfaces, ok)
                      IN  Resolution(IF ok THEN "none" ELSE "UpstreamFailure",
                                     IF ok THEN [iface EXCEPT !.vlan = vlan] ELSE None,
                                     Append(cs, sub), sl, nn)

\* node_nics[node_name][nic_name] = nic
Register(nn, component) == nn \cup {component}

\* the mutant of NicSource creates the NIC whether or not one is known
NicSource_AlwaysCreate(node_name, nic_name) == "create"

\* where the NIC of an explicit nic name comes from (create.py:213-227)
NicSource(node_name, nic_name) ==
    IF \E t \in node_nics : t.node = node_name /\ t.name = nic_name THEN "tracked"
    ELSE IF \E c \in slice.comps : c.node = node_name /\ c.name = nic_name THEN "found"
    ELSE "create"

GetOrCreateInterface(node_name, iface_spec, net_name, default_nic_model, fail, at) ==
    LET component_name == iface_spec.component
        nic_name == iface_spec.nic
        nic_model == IF iface_spec.nic_model # None THEN iface_spec.nic_model
                     ELSE default_nic_model
        site == node_map[node_name].site
        Has(n) == \E c \in slice.comps : c.node = node_name /\ c.name = n
        Comp(n) == CHOOSE c \in slice.comps : c.node = node_name /\ c.name = n
        Tracked(n) == \E t \in node_nics : t.node = node_name /\ t.name = n
        Nic(n) == CHOOSE t \in node_nics : t.node = node_name /\ t.name = n
        Create(n) ==
            LET ok == fail # 1 /\ BackendAccepts(node_name, n, nic_model)
                c == NewComp(node_name, n, nic_model)
                add == Call("add_component", at, node_name, n, nic_model, NoIfaces, ok)
            IN  IF ~ok THEN Resolution("UpstreamFailure", None, <<add>>, slice, node_nics)
                ELSE Attach(c, "nic", iface_spec, site, <<add>>,
                            [slice EXCEPT !.comps = @ \cup {c}, !.nextcid = @ + 1],
                            Register(node_nics, c), fail, at)
    IN  IF component_name # None
        THEN IF Has(component_name)
             THEN Attach(Comp(component_name), "comp", iface_spec, site, <<>>,
                         slice, node_nics, fail, at)
             ELSE IF Tracked(component_name)
             THEN Attach(Nic(component_name), "comp", iface_spec, site, <<>>,
                         slice, node_nics, fail, at)
             ELSE Unresolved("ComponentNotFound")
        ELSE IF nic_name # None
        THEN CASE NicSource(node_name, nic_name) = "tracked" ->
                    Attach(Nic(nic_name), "nic", iface_spec, site, <<>>,
                           slice, node_nics, fail, at)
               [] NicSource(node_name, nic_name) = "found" ->
                    Attach(Comp(nic_name), "nic", iface_spec, site, <<>>,
                           slice, node_nics, fail, at)
               [] OTHER -> Create(nic_name)
        ELSE Create(node_name \o "-" \o net_name \o "-nic")

\* _resolve_interface: switch first, then facility port, then node
ResolveInterface(iface_spec, net_name, default_nic_model, fail, at) ==
    IF iface_spec.switch # None
    THEN IF iface_spec.switch \notin DOMAIN switches_map THEN Unresolved("UnknownSwitch")
         ELSE IF iface_spec.port >= PortCount("P4_Switch") THEN Unresolved("PortOutOfRange")
         ELSE Resolution("none",
                         Iface("switch", iface_spec.switch, 0,
                               IF iface_spec.port < 0
                               THEN PortCount("P4_Switch") + iface_spec.port
                               ELSE iface_spec.port,
                               switches_map[iface_spec.switch].site, None),
                         <<>>, slice, node_nics)
    ELSE IF iface_spec.facility_port # None
    THEN IF iface_spec.facility_port \notin DOMAIN facility_ports_map
         THEN Unresolved("UnknownFacilityPort")
         ELSE Resolution("none",
                         Iface("facility_port", iface_spec.facility_port, 0, 0,
                               facility_ports_map[iface_spec.facility_port].site, None),
                         <<>>, slice, node_nics)
    ELSE IF iface_spec.node = None THEN Unresolved("MissingDiscriminator")
    ELSE IF iface_spec.node \notin DOMAIN node_map THEN Unresolved("UnknownNode")
    ELSE GetOrCreateInterface(iface_spec.node, iface_spec, net_name,
                              default_nic_model, fail, at)

\* one entry of the resolution log: what the spec named and what it got
ResolutionLog(iface_spec, r, at) ==
    [node |-> iface_spec.node,
     nic |-> IF iface_spec.switch = None /\ iface_spec.facility_port = None
                /\ iface_spec.component = None
             THEN iface_spec.nic ELSE None,
     at |-> at,
     cid |-> IF r.e # "none" THEN 0 ELSE r.iface.cid,
     adds |-> Len(SelectSeq(r.calls, LAMBDA c : c.op = "add_component")),
     e |-> r.e]

(***************************************************************************)
(* Networks (create.py:533-670, modify.py:328-461)                         *)
(***************************************************************************)
\* _get_iface_site: node first, then switch, then facility port
GetIfaceSite(ispec) ==
    IF ispec.node # None
    THEN IF ispec.node \notin DOMAIN node_map
         THEN [e |-> "UnknownNode", site |-> None]
         ELSE [e |-> "none", site |-> node_map[ispec.node].site]
    ELSE IF ispec.switch # None
    THEN IF ispec.switch \notin DOMAIN switches_map
         THEN [e |-> "UnknownSwitch", site |-> None]
         ELSE [e |-> "none", site |-> switches_map[ispec.switch].site]
    ELSE IF ispec.facility_port # None
    THEN IF ispec.facility_port \notin DOMAIN facility_ports_map
         THEN [e |-> "UnknownFacilityPort", site |-> None]
         ELSE [e |-> "none", site |-> facility_ports_map[ispec.facility_port].site]
    ELSE [e |-> "MissingDiscriminator", site |-> None]

\* the first exception the set comprehension over interface_specs raises
FirstSiteError(interface_specs) ==
    LET bad == {i \in 1..Len(interface_specs) :
                    GetIfaceSite(interface_specs[i]).e # "none"}
    IN  IF bad = {} THEN "none"
        ELSE GetIfaceSite(interface_specs[CHOOSE i \in bad : \A j \in bad : i <= j]).e

RECURSIVE SiteOrder(_)
\* the keys of specs_by_site in insertion order
SiteOrder(interface_specs) ==
    IF interface_specs = <<>> THEN <<>>
    ELSE LET n == Len(interface_specs)
             before == SiteOrder(SubSeq(interface_specs, 1, n - 1))
             site == GetIfaceSite(interface_specs[n]).site
         IN  IF \E i \in 1..Len(before) : before[i] = site THEN before
             ELSE Append(before, site)

SpecsBySite(interface_specs) ==
    LET order == SiteOrder(interface_specs)
    IN  [i \in 1..Len(order) |->
            [name |-> order[i],
             specs |-> SelectSeq(interface_specs,
                                 LAMBDA s : GetIfaceSite(s).site = order[i])]]

\* the tiers read without the SmartNIC default of L2PTP
SelectNicForNetwork_BasicDefault(net_type, bandwidth) ==
    IF net_type = "L2PTP"
    THEN IF bandwidth >= 400 THEN "NIC_ConnectX_7_400"
         ELSE IF bandwidth >= 100 THEN "NIC_ConnectX_6"
         ELSE IF bandwidth >= 25 THEN "NIC_ConnectX_5"
         ELSE "NIC_Basic"
    ELSE "NIC_Basic"

\* _select_nic_for_network (create.py:328-350); bandwidth 0 stands for None
SelectNicForNetwork(net_type, bandwidth) ==
    IF net_type = "L2PTP"
    THEN IF bandwidth >= 400 THEN "NIC_ConnectX_7_400"
         ELSE IF bandwidth >= 100 THEN "NIC_ConnectX_6"
         ELSE IF bandwidth >= 25 THEN "NIC_ConnectX_5"
         ELSE DEFAULT_SMARTNIC
    ELSE "NIC_Basic"

FabnetTypes == {"FABNetv4", "FABNetv6", "FABNetv4Ext", "FABNetv6Ext"}

\* IPv4Network(subnet) accepts a network address with its prefix length
SubnetParses(subnet) ==
    CASE subnet = "10.0.0.0/24" -> TRUE
      [] subnet = "10.0.0.1/24" -> FALSE
      [] OTHER                  -> FALSE

Header(name, type, ero, bandwidth, nic, subnet) ==
    [name |-> name, type |-> type, ero |-> ero, bandwidth |-> bandwidth,
     nic |-> nic, subnet |-> subnet]

NicA0 == ISpec("a", None, None, None, "nic1", 0, "NIC_ConnectX_6", None)

NicA1 == ISpec("a", None, None, None, "nic1", 1, None, None)

NicA2 == ISpec("a", None, None, None, "nic1", 2, "NIC_ConnectX_6", None)

\* a negative port index
NicALast == ISpec("a", None, None, None, "nic1", -1, "NIC_ConnectX_6", None)

\* a NIC asked for with a model of the GPU catalog
NicAGpu == ISpec("a", None, None, None, "nic1", 0, "GPU_TeslaT4", None)

VlanA0 == ISpec("a", None, None, None, "nic1", 0, "NIC_ConnectX_6", "100")

CompA0 == ISpec("a", None, None, "fpga1", None, 0, None, None)

Switch0 == ISpec(None, "s1", None, None, None, 0, None, None)

FacilityPort0 == ISpec(None, None, "fp1", None, None, 0, None, None)

NodeAndSwitch == ISpec("a", "s1", None, None, None, 0, None, None)

NoDiscriminator == ISpec(None, None, None, None, None, 0, None, None)

NetSpec(h, nodes, interfaces) == [h |-> h, nodes |-> nodes, interfaces |-> interfaces]

Untyped == Header("n1", None, NoEro, 0, None, None)

Fabnet4 == Header("n1", "FABNetv4", NoEro, 0, None, None)

\* endpoint lists of every shape, under the default type
UntypedSpecs ==
    {NetSpec(Untyped, <<>>, l) :
        l \in {<<Plain("a"), Plain("b")>>, <<NicA0, NicA1>>,
               <<Plain("a"), Plain("a")>>, <<NicA0, Plain("b")>>, <<NicA1, Plain("b")>>,
               <<NodeAndSwitch, Plain("a")>>, <<Switch0, FacilityPort0>>,
               <<Plain("a"), Switch0>>, <<CompA0, Plain("b")>>,
               <<Plain("a"), Plain("zz")>>, <<Plain("a")>>, <<>>,
               <<NoDiscriminator, Plain("a")>>, <<VlanA0, Plain("b")>>,
               <<NicA2, Plain("b")>>, <<NicALast, Plain("b")>>, <<NicAGpu, Plain("b")>>,
               <<NicA0, NicA1, Switch0>>}}
    \cup {NetSpec(Untyped, <<"a", "b">>, <<>>)}

FabnetSpecs ==
    {NetSpec(Fabnet4, <<>>, l) :
        l \in {<<Plain("a"), Plain("b")>>, <<NicA0, NicA1>>,
               <<NodeAndSwitch, Plain("a")>>, <<Switch0, FacilityPort0>>,
               <<Plain("a"), Switch0>>, <<NicA0, NicA1, Switch0>>}}
    \cup {NetSpec(Fabnet4, <<"a", "b">>, <<>>)}

\* the other requested types, NIC overrides and subnets
TypedSpecs ==
    {NetSpec(h, <<>>, <<Plain("a"), Plain("b")>>) :
        h \in {Header("n1", "l2", NoEro, 0, None, None),
               Header("n1", "L2PTP", EroOf(<<"X", "Y">>), 100, None, None),
               Header("n1", "L2PTP", NoEro, 0, None, None),
               Header("n1", "Bogus", NoEro, 0, None, None),
               Header("n1", None, NoEro, 0, "NIC_Bogus", None),
               Header("n1", None, NoEro, 0, "NIC_ConnectX_5", None)}}
    \cup {NetSpec(h, <<>>, <<NicA0, NicA1>>) :
            h \in {Header("n1", "L2Bridge", NoEro, 0, None, "10.0.0.0/24"),
                   Header("n1", "L2Bridge", NoEro, 0, None, "10.0.0.1/24")}}

NetSpecs == UntypedSpecs \cup FabnetSpecs \cup TypedSpecs

InterfaceSpecs(net_spec) ==
    IF net_spec.nodes # <<>> /\ net_spec.interfaces = <<>>
    THEN [i \in 1..Len(net_spec.nodes) |-> Plain(net_spec.nodes[i])]
    ELSE net_spec.interfaces

NetCost(net_spec) == 1 + Len(InterfaceSpecs(net_spec))

\* the header of one network spec up to the choice of its NIC model; no
\* backend call is made before the first interface is resolved
NetBegin ==
    /\ pc = "networks"
    /\ \E net_spec \in NetSpecs :
        /\ NetCost(net_spec) <= Left
        /\ consumed' = consumed + NetCost(net_spec)
        /\ LET h == net_spec.h
               interface_specs == InterfaceSpecs(net_spec)
               site_error == FirstSiteError(interface_specs)
               net_sites == {GetIfaceSite(interface_specs[i]).site :
                                i \in 1..Len(interface_specs)}
               typed == DetermineNetworkType(h.type, net_sites, h.ero)
               net_type == typed.val
               e == IF mode = "build" /\ Len(interface_specs) < 2 THEN "TooFewEndpoints"
                    ELSE IF site_error # "none" THEN site_error
                    ELSE IF ~typed.ok THEN typed.err
                    ELSE IF h.nic # None /\ h.nic \notin VALID_NIC_MODELS
                    THEN "InvalidNicModel"
                    ELSE "none"
               nic_model == IF h.nic # None THEN h.nic
                            ELSE SelectNicForNetwork(net_type, h.bandwidth)
               fanout == net_type \in FabnetTypes /\ Cardinality(net_sites) > 1
               by_site == SpecsBySite(interface_specs)
           IN
           /\ err' = e
           /\ pc' = Propagate(e, "net_resolve")
           /\ cur' = IF e # "none" THEN cur
                     ELSE [kind |-> "net", name |-> h.name, net_type |-> net_type,
                           nic_model |-> nic_model, ero |-> h.ero,
                           bandwidth |-> h.bandwidth, subnet |-> h.subnet,
                           specs |-> interface_specs, first |-> Len(calls) + 1,
                           ifaces |-> <<>>, attached |-> <<>>,
                           groups |-> IF fanout
                                      THEN [i \in 1..Len(by_site) |->
                                              [name |-> h.name \o "-" \o by_site[i].name,
                                               specs |-> by_site[i].specs]]
                                      ELSE <<[name |-> h.name, specs |-> interface_specs]>>]
    /\ UNCHANGED <<pairvars, fin, fout, mode, node_map, switches_map, facility_ports_map,
                   node_nics, used_sites, slice, calls, resolved, netlog, added,
                   removed>>

\* _resolve_interface for the next interface spec of the network
NetResolve ==
    /\ pc = "net_resolve"
    /\ Head(cur.groups).specs # <<>>
    /\ \E fail \in 0..2 :
        LET g == Head(cur.groups)
            iface_spec == Head(g.specs)
            r == ResolveInterface(iface_spec, cur.name, cur.nic_model, fail, "networks")
        IN
        /\ calls' = calls \o r.calls
        /\ slice' = r.slice
        /\ node_nics' = r.node_nics
        /\ resolved' = Append(resolved, ResolutionLog(iface_spec, r, "networks"))
        /\ err' = r.e
        /\ pc' = Propagate(r.e, pc)
        /\ cur' = IF r.e # "none" THEN cur
                  ELSE [cur EXCEPT !.groups = <<[g EXCEPT !.specs = Tail(@)]>> \o Tail(@),
                                   !.ifaces = Append(@, r.iface),
                                   !.attached = Append(@, r.iface)]
    /\ UNCHANGED <<pairvars, fin, fout, mode, node_map, switches_map, facility_ports_map,
                   used_sites, netlog, added, removed, consumed>>

\* add_l3network or add_l2network for the interfaces resolved, with the
\* route hops and the bandwidth of an L2PTP network
NetCreate ==
    /\ pc = "net_resolve"
    /\ Head(cur.groups).specs = <<>>
    /\ \E fail \in 0..3 :
        LET g == Head(cur.groups)
            l3 == cur.net_type \in VALID_L3_NETWORK_TYPES
            subnet == IF mode = "modify" /\ ~l3 THEN cur.subnet ELSE None
            bad_subnet == subnet # None /\ ~SubnetParses(subnet)
            ptp == ~l3 /\ cur.net_type = "L2PTP"
            planned ==
                <<Call(IF l3 THEN "add_l3network" ELSE "add_l2network", "networks", g.name,
                       IF l3 THEN L3_TYPE_MAP(cur.net_type) ELSE cur.net_type,
                       subnet, cur.ifaces, TRUE)>>
                \o (IF ptp /\ EroTruthy(cur.ero)
                    THEN <<Call("set_l2_route_hops", "networks", g.name, cur.ero.hops,
                                None, NoIfaces, TRUE)>>
                    ELSE <<>>)
                \o (IF ptp /\ cur.bandwidth # 0
                    THEN <<Call("set_bandwidth", "networks", g.name, cur.bandwidth,
                                None, NoIfaces, TRUE)>>
                    ELSE <<>>)
            made == IF bad_subnet THEN <<>>
                    ELSE Execute(planned, IF g.name \in slice.services THEN 1 ELSE fail)
            e == IF bad_subnet THEN "InvalidSubnet"
                 ELSE IF Raised(made) THEN "UpstreamFailure" ELSE "none"
            last == Tail(cur.groups) = <<>>
        IN
        /\ calls' = calls \o made
        /\ err' = e
        /\ pc' = Propagate(e, IF last THEN "networks" ELSE pc)
        /\ slice' = IF made # <<>> /\ made[1].ok
                    THEN [slice EXCEPT !.services = @ \cup {g.name}] ELSE slice
        /\ added' = IF e = "none" /\ (mode = "modify" \/ last)
                    THEN [added EXCEPT !.networks =
                            Append(@, IF mode = "modify" THEN g.name ELSE cur.name)]
                    ELSE added
        /\ netlog' = IF e = "none" /\ last
                     THEN Append(netlog, [name |-> cur.name, net_type |-> cur.net_type,
                                          specs |-> cur.specs,
                                          ifaces |-> cur.attached,
                                          first |-> cur.first,
                                          last |-> Len(calls')])
                     ELSE netlog
        /\ cur' = IF e # "none" THEN cur
                  ELSE IF last THEN NoCur
                  ELSE [cur EXCEPT !.groups = Tail(@), !.ifaces = <<>>]
    /\ UNCHANGED <<pairvars, fin, fout, mode, node_map, switches_map, facility_ports_map,
                   node_nics, used_sites, resolved, removed, consumed>>

(***************************************************************************)
(* Port mirrors (create.py:672-697, modify.py:463-488)                     *)
(***************************************************************************)
MirrorSpecs ==
    {[name |-> "m1", mirror_interface_name |-> "p1", receive_interface |-> s] :
        s \in {NicA1, Plain("a")}}

AddPortMirror ==
    /\ pc = "port_mirrors"
    /\ Left > 0
    /\ consumed' = consumed + 1
    /\ \E pm_spec \in MirrorSpecs, fail \in 0..3 :
        LET r == ResolveInterface(pm_spec.receive_interface, pm_spec.name,
                                  DEFAULT_SMARTNIC, fail, pc)
            ok == fail # Len(r.calls) + 1 /\ pm_spec.name \notin r.slice.services
            mirror == Call("add_port_mirror_service", pc, pm_spec.name,
                           pm_spec.mirror_interface_name, "both", <<r.iface>>, ok)
            e == IF r.e # "none" THEN r.e
                 ELSE IF ok THEN "none" ELSE "UpstreamFailure"
        IN
        /\ calls' = IF r.e # "none" THEN calls \o r.calls
                    ELSE (calls \o r.calls) \o <<mirror>>
        /\ node_nics' = r.node_nics
        /\ resolved' = Append(resolved, ResolutionLog(pm_spec.receive_interface, r, pc))
        /\ err' = e
        /\ pc' = Propagate(e, pc)
        /\ slice' = IF e = "none"
                    THEN [r.slice EXCEPT !.services = @ \cup {pm_spec.name}]
                    ELSE r.slice
        /\ added' = IF e = "none"
                    THEN [added EXCEPT !.port_mirrors = Append(@, pm_spec.name)]
                    ELSE added
    /\ UNCHANGED <<pairvars, fin, fout, mode, node_map, switches_map, facility_ports_map,
                   used_sites, cur, netlog, removed>>

(***************************************************************************)
(* Specification Spec: one build pass or one modify pass                   *)
(***************************************************************************)
Next ==
    \/ EndList
    \/ RemoveService \/ RemoveSwitch \/ RemoveComponent \/ RemoveNode
    \/ AddNode \/ NodeComponent \/ NodeFabnet
    \/ AddComponent \/ AddSwitch \/ AddFacilityPort
    \/ NetBegin \/ NetResolve \/ NetCreate
    \/ AddPortMirror
    \/ Submit

Spec == PassInit /\ [][Next]_vars

(***************************************************************************)
(* Properties of a pass                                                    *)
(***************************************************************************)
IsNetworkCreation(c) == c.op \in {"add_l3network", "add_l2network"}

\* the network creations made for one processed network spec
NetworkCalls(n) == {k \in n.first..n.last : IsNetworkCreation(calls[k])}

\* the endpoints of a processed network spec: the interfaces it attached
Endpoints(n) == {n.ifaces[k] : k \in 1..Len(n.ifaces)}

EndpointSites(n) == {x.site : x \in Endpoints(n)}

InterfacesOf(c) == {c.ifaces[k] : k \in 1..Len(c.ifaces)}

\* C1: for every processed network spec whose resolved type is a FABNet
\* type and whose endpoints lie at more than one site, no network is created
\* under the original name and exactly one L3 network is created per site,
\* named name-site, holding exactly the endpoints located at that site.
C1_FanOutPerSite ==
    \A j \in 1..Len(netlog) :
        LET n == netlog[j] IN
        (n.net_type \in FabnetTypes /\ Cardinality(EndpointSites(n)) > 1) =>
            /\ \A k \in NetworkCalls(n) : calls[k].a # n.name
            /\ Cardinality(NetworkCalls(n)) = Cardinality(EndpointSites(n))
            /\ \A site \in EndpointSites(n) :
                \E k \in NetworkCalls(n) :
                    /\ calls[k].op = "add_l3network"
                    /\ calls[k].a = n.name \o "-" \o site
                    /\ InterfacesOf(calls[k]) = {x \in Endpoints(n) : x.site = site}

\* explicit (node, NIC name) pairs named by the resolutions of the pass
NamesNic(r) == r.nic # None

\* C6: all resolutions of one pass that name the same (node, NIC name) pair
\* get an interface of the same component, and add_component is called at
\* most once for that pair.
C6_NicReuse ==
    \A i, j \in 1..Len(resolved) :
        (/\ NamesNic(resolved[i]) /\ NamesNic(resolved[j])
         /\ resolved[i].node = resolved[j].node
         /\ resolved[i].nic = resolved[j].nic) =>
            /\ (resolved[i].e = "none" /\ resolved[j].e = "none")
                    => resolved[i].cid = resolved[j].cid
            /\ Cardinality({k \in 1..Len(calls) :
                               /\ calls[k].op = "add_component"
                               /\ calls[k].a = resolved[i].node
                               /\ calls[k].b = resolved[i].nic}) <= 1

\* two networks stages apart share one NIC: port 0 in a network, port 1 as
\* the receive interface of a port mirror, after a single add_component
C6_Witness ==
    /\ pc = "done"
    /\ \E i, j \in 1..Len(resolved) :
        /\ resolved[i].node = "a" /\ resolved[i].nic = "nic1"
        /\ resolved[j].node = "a" /\ resolved[j].nic = "nic1"
        /\ resolved[i].at = "networks" /\ resolved[j].at = "port_mirrors"
        /\ resolved[i].e = "none" /\ resolved[j].e = "none"
        /\ resolved[i].adds = 1 /\ resolved[j].adds = 0
        /\ resolved[i].cid = resolved[j].cid

\* the place of a creation call in the order of a build pass; 0 for the
\* calls that belong to another creation (components, fabnet, route hops)
Rank(c) ==
    CASE c.op = "add_node"                -> 1
      [] c.op = "add_switch"              -> 2
      [] c.op = "add_facility_port"       -> 3
      [] IsNetworkCreation(c)             -> 4
      [] c.op = "add_port_mirror_service" -> 5
      [] c.op = "submit"                  -> 6
      [] OTHER                            -> 0

\* C7: in a build pass node creations (each followed by the node's
\* components and fabnet request) come before switch creations, these before
\* facility-port creations, these before network creations, these before
\* port-mirror creations; submit is called once, last, with wait=False.
C7_BuildOrder ==
    mode = "build" =>
        /\ \A i, j \in 1..Len(calls) :
            (i < j /\ Rank(calls[i]) > 0 /\ Rank(calls[j]) > 0)
                => Rank(calls[i]) <= Rank(calls[j])
        /\ \A k \in 1..Len(calls) :
            (calls[k].at = "nodes" /\ calls[k].op \in {"add_component", "add_fabnet"}) =>
                \E i \in 1..(k - 1) :
                    /\ calls[i].op = "add_node" /\ calls[i].a = calls[k].a
                    /\ \A m \in (i + 1)..(k - 1) :
                        /\ calls[m].op = "add_component"
                        /\ calls[m].a = calls[k].a
        /\ \A k \in 1..Len(calls) :
            calls[k].op = "submit" => (k = Len(calls) /\ calls[k].a = "wait=False")
        /\ pc = "done" => calls[Len(calls)].op = "submit"

\* a finished build pass with a node and its component, a switch, a network,
\* a port mirror and the submit
C7_Witness ==
    /\ mode = "build" /\ pc = "done"
    /\ \A op \in {"add_node", "add_switch", "add_l2network",
                  "add_port_mirror_service", "submit"} :
        \E k \in 1..Len(calls) : calls[k].op = op /\ calls[k].ok

AddedByCall(c) ==
    CASE c.op = "add_node"   -> c.a \in slice.nodes
      [] c.op = "add_switch" -> c.a \in slice.switches
      [] c.op = "add_component" ->
            \E x \in slice.comps : x.node = c.a /\ x.name = c.b
      [] IsNetworkCreation(c) \/ c.op = "add_port_mirror_service" ->
            c.a \in slice.services
      [] OTHER -> TRUE

\* C8: a failure in a build pass or in the add phase of a modify pass ends
\* the pass at once: nothing can follow it, a backend call that raised is the
\* last call made (so submit is not called), and what was added before the
\* failure is still in the slice.
C8_FailureAborts ==
    /\ err # "none" => (pc = "failed" /\ ~ENABLED Next)
    /\ \A k \in 1..Len(calls) :
        (calls[k].op # "delete" /\ ~calls[k].ok) => (k = Len(calls) /\ err # "none")
    /\ \A k \in 1..Len(calls) :
        (calls[k].op # "delete" /\ calls[k].ok) => AddedByCall(calls[k])

\* a network that references an unknown node fails a build pass after two
\* calls were applied; they stay applied and submit is never called
C8_Witness ==
    /\ mode = "build" /\ pc = "failed" /\ err = "UnknownNode"
    /\ Len(calls) = 2
    /\ calls[1].op = "add_node" /\ calls[1].ok /\ calls[1].a \in slice.nodes
    /\ calls[2].op = "add_switch" /\ calls[2].ok /\ calls[2].a \in slice.switches

RemoveKinds ==
    {"port_mirrors", "networks", "facility_ports", "switches", "components", "nodes"}

DeleteEntry(c) == IF c.a = "components" THEN <<c.b, c.c>> ELSE c.b

RECURSIVE SuccessfulDeletes(_, _)
\* the entries of one remove list whose delete call returned, in call order
SuccessfulDeletes(kind, k) ==
    IF k = 0 THEN <<>>
    ELSE IF calls[k].op = "delete" /\ calls[k].a = kind /\ calls[k].ok
    THEN Append(SuccessfulDeletes(kind, k - 1), DeleteEntry(calls[k]))
    ELSE SuccessfulDeletes(kind, k - 1)

\* a delete call that raised did not end the pass, and the removed result
\* lists exactly the entries whose delete call returned
SkippedAndReported ==
    /\ (calls # <<>> /\ calls[Len(calls)].op = "delete" /\ ~calls[Len(calls)].ok)
            => err # "UpstreamFailure"
    /\ \A kind \in RemoveKinds : removed[kind] = SuccessfulDeletes(kind, Len(calls))

\* C9 as stated: no entry of a remove list ever ends a modify pass, a failed
\* removal is skipped and removed holds exactly the successful deletes.
C9_RemovalNeverAborts ==
    mode = "modify" =>
        /\ SkippedAndReported
        /\ err # "RemoveComponentMissingField"

\* C9 amended: a delete that raises is skipped and removed holds exactly the
\* successful deletes; the one entry that ends the pass is a
\* remove_components entry without node or name, before any add operation.
C9_RemovalBestEffort ==
    mode = "modify" =>
        /\ SkippedAndReported
        /\ pc \in RemoveStages => err = "none"
        /\ err = "RemoveComponentMissingField" =>
                (pc = "failed" /\ \A k \in 1..Len(calls) : calls[k].op = "delete")

\* a delete that raised, then a delete that returned, then an add, and the
\* pass submitted
C9_Witness ==
    /\ mode = "modify" /\ pc = "done"
    /\ \E i, j, k \in 1..Len(calls) :
        /\ i < j /\ j < k
        /\ calls[i].op = "delete" /\ ~calls[i].ok
        /\ calls[j].op = "delete" /\ calls[j].ok
        /\ calls[k].op = "add_switch" /\ calls[k].ok
    /\ removed.networks = <<"n0">>
    /\ removed.port_mirrors = <<>>

(***************************************************************************)
(* paginate (utils/data_helpers.py:257-281).  The function reads only the  *)
(* length of items, so the items are their positions.  An Optional[int]    *)
(* argument is a record: NoInt for None, IntOf(n) for the integer n.       *)
(***************************************************************************)
MaxPage == 4

NoInt == [isnone |-> TRUE, v |-> 0]

IntOf(n) == [isnone |-> FALSE, v |-> n]

PageLists == {[i \in 1..n |-> i] : n \in 0..MaxLen}

PageLimits == {NoInt} \cup {IntOf(n) : n \in 0..MaxPage}

PageOffsets == {NoInt} \cup {IntOf(n) : n \in (-1)..MaxPage}

Min(a, b) == IF a <= b THEN a ELSE b

Max(a, b) == IF a >= b THEN a ELSE b

\* items[lo:hi] for 0 <= lo and 0 <= hi
Slice(items, lo, hi) ==
    IF lo >= Min(hi, Len(items)) THEN <<>>
    ELSE SubSeq(items, lo + 1, Min(hi, Len(items)))

\* the mutant of paginate reads limit 0 as an absent limit
paginate_ZeroIsAbsent(items, limit, offset) ==
    LET total == Len(items)
        start == Max(0, IF offset.isnone THEN 0 ELSE offset.v)
        sliced == IF limit.isnone \/ limit.v = 0 THEN Slice(items, start, total)
                  ELSE Slice(items, start, start + Max(0, limit.v))
    IN  [items |-> sliced, total |-> total, count |-> Len(sliced),
         offset |-> start, has_more |-> (start + Len(sliced)) < total]

paginate(items, limit, offset) ==
    LET total == Len(items)
        start == Max(0, IF offset.isnone \/ offset.v = 0 THEN 0 ELSE offset.v)
        sliced == IF limit.isnone THEN Slice(items, start, total)
                  ELSE Slice(items, start, start + Max(0, limit.v))
    IN  [items |-> sliced, total |-> total, count |-> Len(sliced),
         offset |-> start, has_more |-> (start + Len(sliced)) < total]

(***************************************************************************)
(* Specification SpecPage: paginate on bounded lists, limits and offsets   *)
(***************************************************************************)
PageInit ==
    /\ PassIdle /\ PairIdle
    /\ fin \in [items : PageLists, limit : PageLimits, offset : PageOffsets]
    /\ fout = Pending

Paginate ==
    /\ fout = Pending
    /\ fout' = Ok(paginate(fin.items, fin.limit, fin.offset))
    /\ UNCHANGED <<fin, passvars, pairvars>>

PageNext == Paginate

SpecPage == PageInit /\ [][PageNext]_vars

\* the offset clamped to >= 0
Clamped(offset) == Max(0, IF offset.isnone THEN 0 ELSE offset.v)

\* limit or len(items)
LimitOrAll(limit, items) == IF limit.isnone \/ limit.v = 0 THEN Len(items) ELSE limit.v

PageMeta(page, items, offset) ==
    /\ page.total = Len(items)
    /\ page.count = Len(page.items)
    /\ page.offset = Clamped(offset)
    /\ page.has_more = (Clamped(offset) + page.count < page.total)

\* C11 as stated: the number of records returned is
\* min(limit or len(items), max(0, len(items) - offset)) with the offset
\* clamped to >= 0, total is len(items), count the number returned, the
\* reported offset the clamped offset and has_more is offset + count < total.
C11_PageSize ==
    fout # Pending =>
        /\ Len(fout.val.items) =
              Min(LimitOrAll(fin.limit, fin.items),
                  Max(0, Len(fin.items) - Clamped(fin.offset)))
        /\ PageMeta(fout.val, fin.items, fin.offset)

\* C11 amended: only an absent limit means all records; limit 0 returns no
\* record.  The number returned is min(limit, max(0, len(items) - offset))
\* for a given limit and max(0, len(items) - offset) for an absent one.
C11_PageSizeZeroLimit ==
    fout # Pending =>
        /\ Len(fout.val.items) =
              Min(IF fin.limit.isnone THEN Len(fin.items) ELSE fin.limit.v,
                  Max(0, Len(fin.items) - Clamped(fin.offset)))
        /\ fout.val.items = Slice(fin.items, Clamped(fin.offset),
                                  Clamped(fin.offset) + Len(fout.val.items))
        /\ PageMeta(fout.val, fin.items, fin.offset)

\* limit 0 on three items from offset 1: nothing returned, more to come
C11_Witness ==
    /\ fout # Pending
    /\ fin.limit = IntOf(0) /\ fin.offset = IntOf(1) /\ Len(fin.items) = 3
    /\ fout.val.count = 0 /\ fout.val.has_more

(***************************************************************************)
(* The declarative filter engine (data_helpers.py:18-112).                 *)
(*                                                                         *)
(* Python values are tagged records: None, an integer, a string (the       *)
(* sequence of its characters), a list of values, or a dict (its keys in   *)
(* insertion order beside their values).  A record to be filtered is a     *)
(* dict.                                                                   *)
(***************************************************************************)
VNone == [t |-> "none", n |-> 0, s |-> <<>>, items |-> <<>>, keys |-> <<>>]

VInt(n) == [t |-> "int", n |-> n, s |-> <<>>, items |-> <<>>, keys |-> <<>>]

VStr(s) == [t |-> "str", n |-> 0, s |-> s, items |-> <<>>, keys |-> <<>>]

VList(items) ==
    [t |-> "list", n |-> 0, s |-> <<>>, items |-> items, keys |-> <<>>]

VDict(keys, items) ==
    [t |-> "dict", n |-> 0, s |-> <<>>, items |-> items, keys |-> keys]

\* dict.get(key): the value stored under the key, None when there is none
DictGet(val, key) ==
    IF \E i \in DOMAIN val.keys : val.keys[i] = key
    THEN val.items[CHOOSE i \in DOMAIN val.keys : val.keys[i] = key]
    ELSE VNone

\* field.split(".") on the field names a filter may carry
Parts(field) ==
    CASE field = "a.x" -> <<"a", "x">>
      [] field = "b.x" -> <<"b", "x">>
      [] OTHER         -> <<field>>

RECURSIVE Walk(_, _)
\* the loop of _resolve_field over the parts still to follow
Walk(val, parts) ==
    IF parts = <<>> THEN val
    ELSE IF val.t = "dict" THEN Walk(DictGet(val, Head(parts)), Tail(parts))
    ELSE VNone

_resolve_field(record, field) == Walk(record, Parts(field))

\* Python's == and != on the modelled values
PyEq_NoneNever(value, operand) == value = operand /\ value.t # "none"

PyEq(value, operand) == value = operand

PyNe(value, operand) == value # operand

\* the characters of a key or of a decimal digit
Chars(k) == <<k>>

Digit(d) ==
    CASE d = 0 -> "0" [] d = 1 -> "1" [] d = 2 -> "2" [] d = 3 -> "3"
      [] d = 4 -> "4" [] d = 5 -> "5" [] d = 6 -> "6" [] d = 7 -> "7"
      [] d = 8 -> "8" [] OTHER -> "9"

\* str(v) of a list element: the decimal digits of an integer below 100,
\* a string itself, "None" for None
StrOf(v) ==
    CASE v.t = "int" ->
            IF v.n < 10 THEN <<Digit(v.n)>>
            ELSE <<Digit(v.n \div 10), Digit(v.n % 10)>>
      [] v.t = "str" -> v.s
      [] OTHER       -> <<"N", "o", "n", "e">>

\* str.lower() character by character
LowerChar(c) ==
    CASE c = "A" -> "a"
      [] c = "B" -> "b"
      [] c = "N" -> "n"
      [] OTHER   -> c

LowerStr(s) == [i \in DOMAIN s |-> LowerChar(s[i])]

\* `needle in hay` for two strings: needle is a substring of hay
Substring(needle, hay) ==
    \E i \in 0..(Len(hay) - Len(needle)) :
        SubSeq(hay, i + 1, i + Len(needle)) = needle

\* Python's < on two values of one ordered type; strings compare
\* character by character, a proper prefix being smaller
CharRank(c) ==
    CASE c = "A" -> 1 [] c = "B" -> 2 [] c = "a" -> 3 [] c = "b" -> 4
      [] OTHER -> 5

RECURSIVE StrLess(_, _)
StrLess(x, y) ==
    IF y = <<>> THEN FALSE
    ELSE IF x = <<>> THEN TRUE
    ELSE IF Head(x) # Head(y) THEN CharRank(Head(x)) < CharRank(Head(y))
    ELSE StrLess(Tail(x), Tail(y))

Comparable(value, operand) ==
    value.t = operand.t /\ value.t \in {"int", "str"}

PyLess(value, operand) ==
    IF value.t = "int" THEN value.n < operand.n ELSE StrLess(value.s, operand.s)

(***************************************************************************)
(* A filter expression is the sequence of its clauses in the dict's        *)
(* iteration order.  A clause pairs a key with its spec; a spec is a       *)
(* literal, an operator mapping (operator entries in iteration order) or   *)
(* a list of sub-expressions.  An operator's operand is a spec as well:    *)
(* `any` and `all` read theirs as the spec of a clause.                    *)
(***************************************************************************)
Lit(v) == [form |-> "lit", v |-> v, ops |-> <<>>, subs |-> <<>>]

Mapping(ops) == [form |-> "ops", v |-> VNone, ops |-> ops, subs |-> <<>>]

SubList(subs) == [form |-> "list", v |-> VNone, ops |-> <<>>, subs |-> subs]

Op(op, operand) == [op |-> op, operand |-> operand]

Clause(key, spec) == [key |-> key, spec |-> spec]

KnownOperators ==
    {"eq", "ne", "lt", "lte", "gt", "gte", "in", "contains", "icontains",
     "regex", "any", "all"}

RECURSIVE FirstAll(_)
\* all(...) and the `return False` loops over results computed on demand:
\* the first result that raised or is false decides
FirstAll(rs) ==
    IF rs = <<>> THEN Ok(TRUE)
    ELSE IF ~Head(rs).ok THEN Head(rs)
    ELSE IF ~Head(rs).val THEN Ok(FALSE)
    ELSE FirstAll(Tail(rs))

RECURSIVE FirstAny(_)
\* any(...) over results computed on demand: the first result that raised
\* or is true decides
FirstAny(rs) ==
    IF rs = <<>> THEN Ok(FALSE)
    ELSE IF ~Head(rs).ok THEN Head(rs)
    ELSE IF Head(rs).val THEN Ok(TRUE)
    ELSE FirstAny(Tail(rs))

\* value OP operand for the four ordering operators, once value is not None
Ordering(value, op, operand) ==
    IF ~Comparable(value, operand) THEN Raise("TypeError")
    ELSE CASE op = "lt"  -> Ok(PyLess(value, operand))
           [] op = "lte" -> Ok(~PyLess(operand, value))
           [] op = "gt"  -> Ok(PyLess(operand, value))
           [] OTHER      -> Ok(~PyLess(value, operand))

\* `value in operand`
PyIn(value, operand) ==
    CASE operand.t = "list" ->
            Ok(\E i \in DOMAIN operand.items : PyEq(value, operand.items[i]))
      [] operand.t = "str" ->
            IF value.t = "str" THEN Ok(Substring(value.s, operand.s))
            ELSE Raise("TypeError")
      [] operand.t = "dict" ->
            IF value.t \in {"list", "dict"} THEN Raise("TypeError")
            ELSE Ok(value.t = "str"
                    /\ \E i \in DOMAIN operand.keys :
                           Chars(operand.keys[i]) = value.s)
      [] OTHER -> Raise("TypeError")

\* value.lower() under icontains, value itself under contains
Fold(s, icase) == IF icase THEN LowerStr(s) ELSE s

\* the three branches of contains and of icontains; needle is the operand
Contains(value, needle, icase) ==
    CASE value.t = "str" ->
            IF needle.t = "str" THEN Ok(Substring(needle.s, Fold(value.s, icase)))
            ELSE Raise("TypeError")
      [] value.t = "dict" ->
            IF value.keys = <<>> THEN Ok(FALSE)
            ELSE IF needle.t # "str" THEN Raise("TypeError")
            ELSE Ok(\E i \in DOMAIN value.keys :
                        Substring(needle.s, Fold(Chars(value.keys[i]), icase)))
      [] value.t = "list" ->
            IF value.items = <<>> THEN Ok(FALSE)
            ELSE IF needle.t # "str" THEN Raise("TypeError")
            ELSE Ok(\E i \in DOMAIN value.items :
                        Substring(needle.s, Fold(StrOf(value.items[i]), icase)))
      [] OTHER -> Ok(FALSE)

RECURSIVE _match_operator(_, _, _)
RECURSIVE _match_record_filters(_, _)
RECURSIVE OrClause(_, _)
RECURSIVE ClauseResult(_, _)

\* the result of each element of a list value against the sub-filter of
\* `any` and `all`
Elementwise(value, operand) ==
    [i \in DOMAIN value.items |->
        _match_record_filters(VDict(<<"_v">>, <<value.items[i]>>),
                              <<Clause("_v", operand)>>)]

_match_operator(value, op, operand) ==
    CASE op = "eq" -> Ok(PyEq(value, operand.v))
      [] op = "ne" -> Ok(PyNe(value, operand.v))
      [] op \in {"lt", "lte", "gt", "gte"} ->
            IF value.t = "none" THEN Ok(FALSE)
            ELSE Ordering(value, op, operand.v)
      [] op = "in" -> PyIn(value, operand.v)
      [] op = "contains" -> Contains(value, operand.v, FALSE)
      [] op = "icontains" ->
            IF operand.v.t # "str" THEN Raise("AttributeError")
            ELSE Contains(value, VStr(LowerStr(operand.v.s)), TRUE)
      [] op = "regex" ->
            IF value.t # "str" THEN Ok(FALSE)
            ELSE IF operand.v.t # "str" THEN Raise("TypeError")
            ELSE Ok(Substring(operand.v.s, value.s))
      [] op = "any" ->
            IF value.t # "list" THEN Ok(FALSE)
            ELSE FirstAny(Elementwise(value, operand))
      [] op = "all" ->
            IF value.t # "list" THEN Ok(FALSE)
            ELSE FirstAll(Elementwise(value, operand))
      [] OTHER -> Raise("UnknownOperator")

\* any(_match_record_filters(record, sub) for sub in spec)
OrClause_All(record, subs) ==
    FirstAll([i \in DOMAIN subs |-> _match_record_filters(record, subs[i])])

OrClause(record, subs) ==
    FirstAny([i \in DOMAIN subs |-> _match_record_filters(record, subs[i])])

\* one turn of the loop over filters.items(): Ok(TRUE) when the loop goes
\* on to the next clause, Ok(FALSE) when it returns False
ClauseResult(record, c) ==
    IF c.key = "or"
    THEN IF c.spec.form # "list" \/ c.spec.subs = <<>> THEN Ok(TRUE)
         ELSE OrClause(record, c.spec.subs)
    ELSE LET field_val == _resolve_field(record, c.key)
         IN  CASE c.spec.form = "ops" ->
                    FirstAll([i \in DOMAIN c.spec.ops |->
                                 _match_operator(field_val, c.spec.ops[i].op,
                                                 c.spec.ops[i].operand)])
               [] c.spec.form = "lit" -> Ok(~PyNe(field_val, c.spec.v))
               [] OTHER ->
                    Ok(c.spec.subs = <<>> /\ field_val = VList(<<>>))

_match_record_filters_FirstClause(record, filters) ==
    IF filters = <<>> THEN Ok(TRUE) ELSE ClauseResult(record, Head(filters))

_match_record_filters(record, filters) ==
    FirstAll([i \in DOMAIN filters |-> ClauseResult(record, filters[i])])

(***************************************************************************)
(* The records and filter expressions the engine is exercised on.          *)
(***************************************************************************)
Absent == [t |-> "absent", n |-> 0, s |-> <<>>, items |-> <<>>, keys |-> <<>>]

Gpus == VList(<<VInt(16), VInt(64)>>)

ACells ==
    {Absent, VNone, VInt(16), VInt(64), VStr(<<"A", "b">>), Gpus,
     VList(<<>>), VDict(<<"x">>, <<VInt(16)>>)}

BCells == {Absent, VInt(16)}

\* the dict {"a": a, "b": b} without the keys whose cell is absent
MkRecord(a, b) ==
    CASE a = Absent /\ b = Absent -> VDict(<<>>, <<>>)
      [] a = Absent               -> VDict(<<"b">>, <<b>>)
      [] b = Absent               -> VDict(<<"a">>, <<a>>)
      [] OTHER                    -> VDict(<<"a", "b">>, <<a, b>>)

FilterRecords == {MkRecord(a, b) : a \in ACells, b \in BCells}

FilterFields == {"a", "b", "a.x"}

FilterLiterals == {VNone, VInt(16), VInt(32), VStr(<<"A", "b">>), Gpus}

BareExprs == {<<Clause(f, Lit(v))>> : f \in FilterFields, v \in FilterLiterals}

EqExprs ==
    {<<Clause(f, Mapping(<<Op("eq", Lit(v))>>))>> :
        f \in FilterFields, v \in FilterLiterals}

Gte32 == Op("gte", Lit(VInt(32)))

Bogus == Op("bogus", Lit(VInt(16)))

SubExprs ==
    {<<>>,
     <<Clause("a", Lit(VInt(16)))>>,
     <<Clause("b", Lit(VInt(16)))>>,
     <<Clause("a", Mapping(<<Gte32>>))>>,
     <<Clause("a", Mapping(<<Bogus>>))>>}

SubLists ==
    {<<>>} \cup {<<x>> : x \in SubExprs}
           \cup {<<x, y>> : x \in SubExprs, y \in SubExprs}

OrExprs ==
    {<<Clause("or", SubList(subs))>> : subs \in SubLists}
        \cup {<<Clause("or", Lit(VInt(16)))>>,
              <<Clause("or", SubList(<<>>)), Clause("b", Lit(VInt(16)))>>,
              <<Clause("b", Lit(VInt(16))),
                Clause("or", SubList(<<<<Clause("a", Lit(VInt(16)))>>,
                                       <<Clause("a", Lit(VInt(64)))>>>>))>>}

OpSamples ==
    {Op("eq", Lit(VInt(16))), Op("ne", Lit(VInt(16))),
     Op("lt", Lit(VInt(32))), Op("lte", Lit(VInt(16))),
     Op("gt", Lit(VInt(32))), Gte32,
     Op("lt", Lit(VStr(<<"B">>))),
     Op("in", Lit(Gpus)), Op("in", Lit(VStr(<<"A", "b", "b">>))),
     Op("contains", Lit(VStr(<<"b">>))), Op("contains", Lit(VStr(<<"1">>))),
     Op("contains", Lit(VStr(<<"x">>))),
     Op("icontains", Lit(VStr(<<"A", "B">>))),
     Op("icontains", Lit(VStr(<<"X">>))), Op("icontains", Lit(VInt(16))),
     Op("regex", Lit(VStr(<<"b">>))),
     Op("any", Lit(VInt(64))), Op("any", Mapping(<<Gte32>>)),
     Op("all", Mapping(<<Gte32>>)), Op("all", Lit(VInt(16))),
     Op("any", Mapping(<<Bogus>>)), Op("all", Mapping(<<Bogus>>)),
     Bogus}

PairSamples == {Gte32, Op("lt", Lit(VInt(64))), Op("eq", Lit(VInt(16))), Bogus}

OperatorExprs ==
    {<<Clause("a", Mapping(<<>>))>>}
        \cup {<<Clause("a", Mapping(<<o>>))>> : o \in OpSamples}
        \cup {<<Clause("a", Mapping(<<o, p>>))>> :
                 o \in PairSamples, p \in PairSamples}

ClauseSamples == {Lit(VInt(16)), Mapping(<<Gte32>>), Mapping(<<Bogus>>)}

TwoClauseExprs ==
    {<<Clause("a", s), Clause("b", u)>> :
        s \in ClauseSamples, u \in ClauseSamples}

FilterExprs ==
    BareExprs \cup EqExprs \cup OrExprs \cup OperatorExprs
        \cup TwoClauseExprs

FilterInit ==
    /\ PassIdle /\ PairIdle
    /\ fin \in [record : FilterRecords, filters : FilterExprs]
    /\ fout = Pending

\* matches(record, filters), as apply_filters calls it for each record
Matches ==
    /\ fout.err = "pending"
    /\ fout' = _match_record_filters(fin.record, fin.filters)
    /\ UNCHANGED <<fin, passvars, pairvars>>

FilterNext == Matches

SpecFilter == FilterInit /\ [][FilterNext]_vars

Matched == fout.err # "pending"

\* the evaluation returned True (it neither raised nor returned False)
Satisfied(r) == r.ok /\ r.val

SameResult(r, q) == r.ok = q.ok /\ r.err = q.err /\ (r.ok => r.val = q.val)

IsBare(filters) ==
    Len(filters) = 1 /\ filters[1].key # "or" /\ filters[1].spec.form = "lit"

\* the operator spelling {field: {"eq": v}} of the bare clause {field: v}
EqForm(filters) ==
    <<Clause(filters[1].key, Mapping(<<Op("eq", filters[1].spec)>>))>>

\* C12: for a record, a field name and a literal v, matching the bare clause
\* {field: v} returns the same as matching {field: {"eq": v}}, and both
\* return whether the record's value at the field equals v.
C12_EqShorthand ==
    Matched /\ IsBare(fin.filters) =>
        /\ fout.ok
        /\ fout.val = (_resolve_field(fin.record, fin.filters[1].key)
                           = fin.filters[1].spec.v)
        /\ SameResult(fout, _match_record_filters(fin.record,
                                                  EqForm(fin.filters)))

C12_Witness ==
    /\ Matched /\ IsBare(fin.filters)
    /\ fin.filters[1].key = "a.x"
    /\ fin.filters[1].spec.v = VInt(16)
    /\ Satisfied(fout)

IsOr(filters) ==
    Len(filters) = 1 /\ filters[1].key = "or" /\ filters[1].spec.form = "list"

\* Python's `x or y` on two evaluations, the second made only if the first
\* returned False
PyOr(r, q) == IF ~r.ok \/ r.val THEN r ELSE q

\* some sub-expression of the list matches the record
SomeSubMatches(record, subs) ==
    \E i \in DOMAIN subs : Satisfied(_match_record_filters(record, subs[i]))

\* C13 (as stated): an "or" clause over a list of sub-expressions is
\* satisfied if and only if at least one sub-expression matches the record.
C13_OrAny ==
    Matched /\ IsOr(fin.filters) /\ fout.ok =>
        fout.val = SomeSubMatches(fin.record, fin.filters[1].spec.subs)

\* C13 (amended): matching {"or": [A, B]} returns what `matches A or
\* matches B` returns; an "or" clause over a non-empty list is satisfied if
\* and only if at least one sub-expression matches; over an empty list the
\* clause is skipped, so the expression matches although nothing matched.
C13_OrAnyNonEmpty ==
    Matched /\ IsOr(fin.filters) =>
        LET subs == fin.filters[1].spec.subs
        IN  /\ subs = <<>> => fout.ok /\ fout.val
            /\ subs # <<>> /\ fout.ok =>
                   fout.val = SomeSubMatches(fin.record, subs)
            /\ Len(subs) = 2 =>
                   SameResult(fout,
                              PyOr(_match_record_filters(fin.record, subs[1]),
                                   _match_record_filters(fin.record, subs[2])))

C13_Witness ==
    /\ Matched /\ IsOr(fin.filters)
    /\ Len(fin.filters[1].spec.subs) = 2
    /\ ~Satisfied(_match_record_filters(fin.record, fin.filters[1].spec.subs[1]))
    /\ Satisfied(_match_record_filters(fin.record, fin.filters[1].spec.subs[2]))
    /\ Satisfied(fout)

IsOperatorClause(c) == c.key # "or" /\ c.spec.form = "ops"

\* the evaluations of the operators of one operator-mapping clause
OperatorResults(record, c) ==
    [j \in DOMAIN c.spec.ops |->
        _match_operator(_resolve_field(record, c.key), c.spec.ops[j].op,
                        c.spec.ops[j].operand)]

\* C14: an evaluation that returns is true exactly when every clause of the
\* expression is satisfied; a clause whose value is an operator mapping is
\* satisfied exactly when every listed operator passes; lt, lte, gt and gte
\* are false whenever the field value is absent; `gpus gte 32` keeps the
\* record with 64 and drops the record with 16.
C14_Conjunction ==
    Matched =>
        /\ fout.ok =>
               (fout.val <=>
                    \A i \in DOMAIN fin.filters :
                        Satisfied(ClauseResult(fin.record, fin.filters[i])))
        /\ \A i \in DOMAIN fin.filters :
               LET c == fin.filters[i]
                   r == ClauseResult(fin.record, c)
               IN  IsOperatorClause(c) =>
                       /\ r.ok =>
                              (r.val <=>
                                   \A j \in DOMAIN c.spec.ops :
                                       Satisfied(OperatorResults(fin.record, c)[j]))
                       /\ \A j \in DOMAIN c.spec.ops :
                              /\ c.spec.ops[j].op \in {"lt", "lte", "gt", "gte"}
                              /\ _resolve_field(fin.record, c.key) = VNone
                              => LET q == OperatorResults(fin.record, c)[j]
                                 IN  q.ok /\ ~q.val
        /\ fin.filters = <<Clause("a", Mapping(<<Gte32>>))>> =>
               /\ DictGet(fin.record, "a") = VInt(64) => Satisfied(fout)
               /\ DictGet(fin.record, "a") = VInt(16) => fout.ok /\ ~fout.val

C14_Witness ==
    /\ Matched
    /\ Len(fin.filters) = 2
    /\ Satisfied(ClauseResult(fin.record, fin.filters[1]))
    /\ IsOperatorClause(fin.filters[2])
    /\ fin.filters[2].spec.ops[1].op = "gte"
    /\ _resolve_field(fin.record, fin.filters[2].key) = VNone
    /\ fout.ok /\ ~fout.val

RECURSIVE ExprNamesUnknown(_)
RECURSIVE SpecNamesUnknown(_)

\* an operator name outside the supported ones appears somewhere in the
\* spec: in its operator mapping, in an operand, or in a sub-expression
SpecNamesUnknown(spec) ==
    \/ \E j \in DOMAIN spec.ops :
           \/ spec.ops[j].op \notin KnownOperators
           \/ SpecNamesUnknown(spec.ops[j].operand)
    \/ \E k \in DOMAIN spec.subs : ExprNamesUnknown(spec.subs[k])

ExprNamesUnknown(filters) ==
    \E i \in DOMAIN filters : SpecNamesUnknown(filters[i].spec)

\* C15: evaluating a filter expression that contains an operator name
\* outside the supported set fails with UnknownOperator, for every record
\* and wherever the name appears in the expression.
C15_UnknownOperatorFails ==
    Matched /\ ExprNamesUnknown(fin.filters) =>
        ~fout.ok /\ fout.err = "UnknownOperator"

(***************************************************************************)
(* The NIC model of a network (create.py:328-350, 584-594): a valid        *)
(* override wins, otherwise the model follows the resolved type and the    *)
(* bandwidth.  Bandwidth 0 stands for an absent one: both are falsy.       *)
(***************************************************************************)
NicBandwidths == {0, 10, 24, 25, 99, 100, 399, 400, 401}

NicOverrides == {None, "", "NIC_ConnectX_5", "NIC_Bogus"}

ChooseNicModel(user_nic_model, net_type, bandwidth) ==
    IF user_nic_model \notin {None, ""}
    THEN IF user_nic_model \notin VALID_NIC_MODELS THEN Raise("InvalidNicModel")
         ELSE Ok(user_nic_model)
    ELSE Ok(SelectNicForNetwork(net_type, bandwidth))

NicInit ==
    /\ PassIdle /\ PairIdle
    /\ fin \in [user_nic_model : NicOverrides, net_type : VALID_NETWORK_TYPES,
                bandwidth : NicBandwidths]
    /\ fout = Pending

ChooseNic ==
    /\ fout.err = "pending"
    /\ fout' = ChooseNicModel(fin.user_nic_model, fin.net_type, fin.bandwidth)
    /\ UNCHANGED <<fin, passvars, pairvars>>

NicNext == ChooseNic

SpecNic == NicInit /\ [][NicNext]_vars

NicChosen == fout.err # "pending"

NoOverride == fin.user_nic_model \in {None, ""}

\* the SmartNIC tier of a bandwidth, "none" below the lowest tier
Tier(bandwidth) ==
    IF bandwidth >= 400 THEN "NIC_ConnectX_7_400"
    ELSE IF bandwidth >= 100 THEN "NIC_ConnectX_6"
    ELSE IF bandwidth >= 25 THEN "NIC_ConnectX_5"
    ELSE "none"

SitePool ==
    {[name |-> "X", cores_available |-> 8, ram_available |-> 64, disk_available |-> 500],
     [name |-> "Y", cores_available |-> 2, ram_available |-> 64, disk_available |-> 500],
     [name |-> "Z", cores_available |-> 8, ram_available |-> 8, disk_available |-> 10]}

SiteCores == {2, 4}

SiteRam == {8, 32}

SiteDisk == {10, 100}

SiteInit ==
    /\ PassIdle /\ PairIdle
    /\ fin \in [available_sites : SUBSET SitePool, cores : SiteCores,
                ram : SiteRam, disk : SiteDisk,
                used_sites : SUBSET {s.name : s \in SitePool}]
    /\ fout = Pending

\* one call; random.choice may return any of the sites it is given
SelectSite ==
    /\ fout.err = "pending"
    /\ LET choice == SelectSiteForNode(fin.available_sites, fin.cores, fin.ram,
                                       fin.disk, fin.used_sites)
       IN  IF choice = {} THEN fout' = Raise("NoFeasibleSite")
           ELSE \E site \in choice : fout' = Ok(site)
    /\ UNCHANGED <<fin, passvars, pairvars>>

SiteNext == SelectSite

SpecSite == SiteInit /\ [][SiteNext]_vars

SiteSelected == fout.err # "pending"

\* the candidates that meet the three thresholds
Feasible ==
    {s \in fin.available_sites :
        /\ s.cores_available >= fin.cores
        /\ s.ram_available >= fin.ram
        /\ s.disk_available >= fin.disk}

\* C17: the selector fails with NoFeasibleSite when no candidate meets the
\* three thresholds; otherwise the site it returns meets them, and is an
\* unused one whenever some feasible site is unused.
C17_SiteSelection ==
    SiteSelected =>
        /\ Feasible = {} => ~fout.ok /\ fout.err = "NoFeasibleSite"
        /\ Feasible # {} =>
               /\ fout.ok
               /\ \E s \in Feasible : s.name = fout.val
               /\ (\E s \in Feasible : s.name \notin fin.used_sites)
                      => fout.val \notin fin.used_sites

C17_Witness ==
    /\ SiteSelected
    /\ \E s \in Feasible : s.name \in fin.used_sites
    /\ \E s \in Feasible : s.name \notin fin.used_sites
    /\ fout.ok /\ fout.val \notin fin.used_sites

\* how many of the four ways to name an endpoint a spec uses: a switch, a
\* facility port, a component on a node, a node without component
DiscriminatorCount(iface_spec) ==
    Cardinality({k \in {"switch", "facility_port", "component", "node"} :
        CASE k = "switch"        -> iface_spec.switch # None
          [] k = "facility_port" -> iface_spec.facility_port # None
          [] k = "component"     -> iface_spec.node # None
                                    /\ iface_spec.component # None
          [] OTHER               -> iface_spec.node # None
                                    /\ iface_spec.component = None})

\* a step that resolved the next endpoint of the current network
ResolvedEndpoint ==
    /\ pc = "net_resolve"
    /\ Len(resolved') = Len(resolved) + 1
    /\ resolved'[Len(resolved')].e = "none"

\* C18: an endpoint spec is resolved only if it carries exactly one of the
\* four discriminators; with none or with more than one resolution fails.
C18_ExactlyOneDiscriminator ==
    [][ResolvedEndpoint =>
           DiscriminatorCount(Head(Head(cur.groups).specs)) = 1]_vars

\* C19: every network spec for which a pass created its network yielded at
\* least 2 endpoint specs: with fewer the pass fails before creating one.
C19_AtLeastTwoEndpoints ==
    \A j \in 1..Len(netlog) : Len(netlog[j].specs) >= 2

\* the k-th call asks the backend for a node under a name that an earlier
\* add_node of the pass already created
DuplicateAddNode(k) ==
    /\ calls[k].op = "add_node"
    /\ \E j \in 1..(k - 1) :
           calls[j].op = "add_node" /\ calls[j].ok /\ calls[j].a = calls[k].a

\* C20: a node name already in use is rejected as an invalid topology
\* before the backend is involved: the pass never asks the backend for a
\* second node under a name it has already created.
C20_DuplicateNodeRejected ==
    \A k \in 1..Len(calls) : ~DuplicateAddNode(k)

\* the number of ports of the endpoint an interface belongs to
EndpointPortCount(iface, sl) ==
    IF iface.kind = "switch" THEN PortCount("P4_Switch")
    ELSE PortCount((CHOOSE c \in sl.comps : c.cid = iface.cid).model)

\* C21: a node-NIC, node-component or switch endpoint resolves to the
\* interface at position `port` of its port list with 0 <= port < port
\* count; a port index outside that range never resolves.
C21_PortInRange ==
    [][ResolvedEndpoint =>
           LET iface_spec == Head(Head(cur.groups).specs)
               iface == cur'.attached[Len(cur'.attached)]
           IN  iface.kind # "facility_port" =>
                   /\ iface.port = iface_spec.port
                   /\ 0 <= iface_spec.port
                   /\ iface_spec.port < EndpointPortCount(iface, slice')]_vars

\* what the message of the unknown-model ValueError carries: the rejected
\* model is always named, the valid models only by the build pass
\* (create.py:481-484 against modify.py:250 and 282)
UnknownModelMessage(m) ==
    [text |-> "Unknown component model",
     valid_models |-> IF m = "build" THEN VALID_COMPONENT_MODELS ELSE {}]

\* the add_component calls made for component specs (of a node spec or of
\* add_components), as opposed to the NICs interface resolution creates
ComponentSpecCalls ==
    {k \in 1..Len(calls) :
        calls[k].op = "add_component" /\ calls[k].at \in {"nodes", "add_components"}}

\* C22: in build and in modify no component with a model outside the catalog
\* is added at the backend, and the pass that met one fails with a message
\* that lists the valid catalog.
C22_UnknownModelRejected ==
    /\ \A k \in ComponentSpecCalls : calls[k].c \in VALID_COMPONENT_MODELS
    /\ pc = "failed" /\ err = "UnknownComponentModel" =>
           UnknownModelMessage(mode).valid_models = VALID_COMPONENT_MODELS

\* the place of a backend call in the order of a modify pass: the six
\* removals by the kind they delete, then the six additions, then submit.
\* The calls made while a node is added (its components, its fabnet) and
\* while a network or port mirror is resolved (NICs, sub-interfaces, route
\* hops, bandwidth) count with that addition.
ModifyRank(c) ==
    CASE c.op = "delete" ->
            CASE c.a = "port_mirrors"   -> 1
              [] c.a = "networks"       -> 2
              [] c.a = "facility_ports" -> 3
              [] c.a = "switches"       -> 4
              [] c.a = "components"     -> 5
              [] OTHER                  -> 6
      [] c.op = "add_node" \/ c.op = "add_fabnet"            -> 7
      [] c.op = "add_component" /\ c.at = "nodes"            -> 7
      [] c.op = "add_component" /\ c.at = "add_components"   -> 8
      [] c.op = "add_switch"                                 -> 9
      [] c.op = "add_facility_port"                          -> 10
      [] c.op = "add_port_mirror_service" \/ c.at = "port_mirrors" -> 12
      [] c.op = "submit"                                     -> 13
      [] OTHER                                               -> 11

\* C23: in a modify pass every removal precedes every addition, removals
\* run in the order port_mirrors, networks, facility_ports, switches,
\* components, nodes, additions in the order nodes, components, switches,
\* facility_ports, networks, port_mirrors, and submit is called once, last,
\* with wait=False.
C23_ModifyOrder ==
    mode = "modify" =>
        /\ \A i, j \in 1..Len(calls) :
               i < j => ModifyRank(calls[i]) <= ModifyRank(calls[j])
        /\ \A k \in 1..Len(calls) :
               calls[k].op = "submit" => k = Len(calls) /\ calls[k].a = "wait=False"
        /\ pc = "done" => calls[Len(calls)].op = "submit"

\* a finished modify pass that removed a network and a node, then added a
\* node and a network
C23_Witness ==
    /\ mode = "modify" /\ pc = "done"
    /\ \E i, j, k, l \in 1..Len(calls) :
           /\ calls[i].op = "delete" /\ calls[i].a = "networks" /\ calls[i].ok
           /\ calls[j].op = "delete" /\ calls[j].a = "nodes" /\ calls[j].ok
           /\ calls[k].op = "add_node" /\ calls[k].ok
           /\ IsNetworkCreation(calls[l]) /\ calls[l].ok

(***************************************************************************)
(* Two concurrent invocations of the build or modify pass                  *)
(* (create.py:406-437, 500-501; modify.py:60-100, 321).  Each runs in a    *)
(* worker thread on its own slice object; used_sites and node_nics are     *)
(* local variables, so every invocation has a frame of its own.  Steps of  *)
(* the two invocations interleave freely.                                  *)
(***************************************************************************)
MaxPairNodes == 2

MaxPairNics == 2

Passes == {1, 2}

\* the mutant of Frame keeps the locals of every invocation in one frame
Frame_Shared(p) == 1

\* the frame that holds the local variables of invocation p
Frame(p) == p

NoNic == [node |-> None, name |-> None, cid |-> 0, by |-> 0]

Event(p, kind, seen, site, nic) ==
    [p |-> p, kind |-> kind, seen |-> seen, site |-> site, nic |-> nic]

PairInit ==
    /\ PassIdle
    /\ fin = None /\ fout = Pending
    /\ \E modes \in [Passes -> {"build", "modify"}] :
           frames = [ctl |-> [p \in Passes |->
                                 [mode |-> modes[p], pc |-> "start", nodes |-> 0,
                                  nics |-> 0]],
                     locals |-> [f \in Passes |->
                                    [used_sites |-> <<>>, node_nics |-> {}]],
                     comps |-> [p \in Passes |-> {}]]
    /\ events = <<>>

\* used_sites = [] in a build, the sites of the slice's nodes in a modify;
\* the slice object is new (build) or fetched (modify: node a at X with nic1)
Construct(p) ==
    /\ frames.ctl[p].pc = "start"
    /\ frames' = [frames EXCEPT
         !.ctl[p].pc = "nodes",
         !.locals[Frame(p)].used_sites =
             IF frames.ctl[p].mode = "build" THEN <<>>
             ELSE <<[site |-> "X", by |-> p]>>,
         !.comps[p] =
             IF frames.ctl[p].mode = "build" THEN {}
             ELSE {[node |-> "a", name |-> "nic1", cid |-> 0, by |-> 0]}]
    /\ UNCHANGED <<fin, fout, passvars, events>>

\* one node without a site: _select_site_for_node reads used_sites, then
\* the chosen site is appended to it
PlaceNode(p) ==
    /\ frames.ctl[p].pc = "nodes"
    /\ frames.ctl[p].nodes < MaxPairNodes
    /\ LET used == frames.locals[Frame(p)].used_sites
           choice == SelectSiteForNode(AvailableSites, 2, 8, 10,
                                       {used[k].site : k \in DOMAIN used})
       IN  \E site \in choice :
               /\ frames' = [frames EXCEPT
                    !.ctl[p].nodes = @ + 1,
                    !.locals[Frame(p)].used_sites = Append(@, [site |-> site, by |-> p])]
               /\ events' = Append(events, Event(p, "site", used, site, NoNic))
    /\ UNCHANGED <<fin, fout, passvars>>

\* node_nics = {name: {} for name in node_map}, before the networks
ToNetworks(p) ==
    /\ frames.ctl[p].pc = "nodes"
    /\ frames.ctl[p].mode = "build" => frames.ctl[p].nodes > 0
    /\ frames' = [frames EXCEPT !.ctl[p].pc = "networks",
                                !.locals[Frame(p)].node_nics = {}]
    /\ UNCHANGED <<fin, fout, passvars, events>>

\* one endpoint naming a NIC of the pass's first node: tracked in
\* node_nics, else found on the slice object, else created and registered
ResolveNic(p) ==
    /\ frames.ctl[p].pc = "networks"
    /\ frames.ctl[p].nics < MaxPairNics
    /\ \E nic_name \in {"nic1", "nic2"} :
        LET nn == frames.locals[Frame(p)].node_nics
            tracked == {t \in nn : t.name = nic_name}
            found == {c \in frames.comps[p] : c.name = nic_name}
            nic == [node |-> "a", name |-> nic_name, cid |-> Len(events) + 1,
                    by |-> p]
        IN  IF tracked # {}
            THEN /\ events' = Append(events, Event(p, "reuse", <<>>, None,
                                                   CHOOSE t \in tracked : TRUE))
                 /\ frames' = [frames EXCEPT !.ctl[p].nics = @ + 1]
            ELSE IF found # {}
            THEN /\ events' = Append(events, Event(p, "found", <<>>, None,
                                                   CHOOSE c \in found : TRUE))
                 /\ frames' = [frames EXCEPT !.ctl[p].nics = @ + 1]
            ELSE /\ events' = Append(events, Event(p, "create", <<>>, None, nic))
                 /\ frames' = [frames EXCEPT
                      !.ctl[p].nics = @ + 1,
                      !.comps[p] = @ \cup {nic},
                      !.locals[Frame(p)].node_nics = Register(@, nic)]
    /\ UNCHANGED <<fin, fout, passvars>>

\* the pass returns
Finish(p) ==
    /\ frames.ctl[p].pc = "networks"
    /\ frames' = [frames EXCEPT !.ctl[p].pc = "done"]
    /\ UNCHANGED <<fin, fout, passvars, events>>

PairNext ==
    \E p \in Passes :
        \/ Construct(p)
        \/ PlaceNode(p)
        \/ ToNetworks(p)
        \/ ResolveNic(p)
        \/ Finish(p)

SpecPair == PairInit /\ [][PairNext]_vars

\* C24: in every interleaving of two passes, the used-site list a pass
\* reads holds only sites that pass recorded, and a NIC a pass takes from
\* its allocation map is one that pass registered.
C24_PrivateState ==
    \A i \in DOMAIN events :
        LET e == events[i]
        IN  /\ e.kind = "site" => \A k \in DOMAIN e.seen : e.seen[k].by = e.p
            /\ e.kind = "reuse" => e.nic.by = e.p

\* both passes created a NIC of the same name and recorded a site, and one
\* of them then reused its own NIC and read its own site
C24_Witness ==
    \E i, j, k, l \in DOMAIN events :
        /\ i < j /\ j < k
        /\ events[i].kind = "create" /\ events[j].kind = "create"
        /\ events[i].p # events[j].p /\ events[i].nic.name = events[j].nic.name
        /\ events[k].kind = "reuse" /\ events[k].nic = events[i].nic
        /\ events[l].kind = "site" /\ events[l].seen # <<>>
        /\ \E m \in DOMAIN events :
               m < l /\ events[m].kind = "site" /\ events[m].p # events[l].p

\* the names of the networks the backend created during the pass
CreatedNetworks ==
    {calls[k].a : k \in {j \in 1..Len(calls) :
                            calls[j].op \in {"add_l3network", "add_l2network"}
                            /\ calls[j].ok}}

\* the "networks" list of the pass's result
ReportedNetworks == {added.networks[k] : k \in 1..Len(added.networks)}

\* C25: the network names in the result of a successful build pass are
\* exactly the names of the networks created at the backend in that pass.
C25_BuildReportsCreated ==
    (mode = "build" /\ pc = "done" /\ err = "none")
        => ReportedNetworks = CreatedNetworks

\* the k-th call is an add_component under a name that an earlier
\* add_component of the pass already used on the same node
DuplicateAddComponent(k) ==
    /\ calls[k].op = "add_component"
    /\ \E j \in 1..(k - 1) :
           /\ calls[j].op = "add_component"
           /\ calls[j].a = calls[k].a
           /\ calls[j].b = calls[k].b

\* C26: within one pass no two add_component calls on the same node use
\* the same component name, whatever the endpoint lists contain.
C26_ComponentNamesUnique ==
    \A k \in 1..Len(calls) : ~DuplicateAddComponent(k)

\* C27: the site an endpoint spec contributes to the network's site set
\* and fan-out partition is the site of the object whose interface is
\* attached for that spec.
C27_SiteOfAttachedObject ==
    [][ResolvedEndpoint =>
           LET iface_spec == Head(Head(cur.groups).specs)
               iface == cur'.attached[Len(cur'.attached)]
           IN  GetIfaceSite(iface_spec).site = iface.site]_vars

(***************************************************************************)
(* The node loop of a build pass over one prefetched snapshot of the       *)
(* sites (create.py:436-461): frames holds the snapshot, the node specs    *)
(* still to place and used_sites; events logs the placements.              *)
(***************************************************************************)
MaxPlaced == 3

SnapshotCores == {4, 8}

PlaceRequests == {[site |-> s, cores |-> c] : s \in {None, "X"}, c \in {2, 6}}

RequestLists ==
    UNION {[1..n -> PlaceRequests] : n \in 1..MaxPlaced}

AutoPlaceInit ==
    /\ PassIdle
    /\ fin = None /\ fout = Pending
    /\ events = <<>>
    /\ \E cap \in [{"X", "Y"} -> SnapshotCores], nodes \in RequestLists :
           frames = [available_sites |->
                        {[name |-> n, cores_available |-> cap[n],
                          ram_available |-> 64, disk_available |-> 500] :
                             n \in {"X", "Y"}},
                     nodes |-> nodes, used_sites |-> <<>>, err |-> "none"]

\* one iteration of `for node_spec in nodes`: the site is the spec's or the
\* selector's choice over the snapshot, which is never updated
AutoPlace ==
    /\ frames.err = "none"
    /\ frames.nodes # <<>>
    /\ LET node_spec == Head(frames.nodes)
           used == {frames.used_sites[k] : k \in DOMAIN frames.used_sites}
           choice == IF node_spec.site # None THEN {node_spec.site}
                     ELSE SelectSiteForNode(frames.available_sites,
                                            node_spec.cores, 8, 10, used)
       IN  IF choice = {}
           THEN /\ frames' = [frames EXCEPT !.err = "NoSuitableSite"]
                /\ UNCHANGED events
           ELSE \E site \in choice :
                    /\ frames' = [frames EXCEPT !.nodes = Tail(@),
                                                !.used_sites = Append(@, site)]
                    /\ events' = Append(events,
                                        [site |-> site, cores |-> node_spec.cores,
                                         auto |-> node_spec.site = None])
    /\ UNCHANGED <<fin, fout, passvars>>

AutoPlaceNext == AutoPlace

SpecAutoPlace == AutoPlaceInit /\ [][AutoPlaceNext]_vars

\* the cores of the first k placements that were auto-placed on the site
RECURSIVE AutoPlacedCores(_, _)
AutoPlacedCores(site, k) ==
    IF k = 0 THEN 0
    ELSE AutoPlacedCores(site, k - 1)
         + (IF events[k].auto /\ events[k].site = site THEN events[k].cores ELSE 0)

\* C28: for every site of the snapshot, the cores of all nodes the pass
\* auto-placed on that site never exceed the site's cores_available.
C28_AutoPlacedWithinCapacity ==
    \A s \in frames.available_sites :
        AutoPlacedCores(s.name, Len(events)) <= s.cores_available

\* the add_component calls made by interface resolution that the backend
\* carried out: the NIC components created while networks and port mirrors
\* are attached
CreatedNics ==
    {k \in 1..Len(calls) :
        /\ calls[k].op = "add_component" /\ calls[k].ok
        /\ k \notin ComponentSpecCalls}

\* C29: every NIC component created during interface resolution has a
\* model of the valid NIC catalog, wherever the model came from.
C29_NicModelInCatalog ==
    \A k \in CreatedNics : calls[k].c \in VALID_NIC_MODELS

(***************************************************************************)
(* The topology queries (server/tools/topology.py:77-91 query_sites,       *)
(* 128-142 query_hosts): the records come from the cache's snapshot when   *)
(* a cache is wired and its snapshot is not empty, from the backend        *)
(* otherwise; then apply_filters, apply_sort, paginate.                    *)
(***************************************************************************)
\* config.max_fetch_for_sort (config.py:67, MAX_FETCH_FOR_SORT)
MaxFetchForSort == 5000

\* a record of the sort model as the dict the filter engine reads
RecordDict(r) ==
    IF ~r.cell.has THEN VDict(<<>>, <<>>)
    ELSE VDict(<<"v">>, <<IF r.cell.isnone THEN VNone ELSE VInt(r.cell.v)>>)

\* apply_filters: the records that match, in order; no filtering when the
\* filters are None or empty; the first exception of a match propagates
apply_filters(items, filters) ==
    IF filters = <<>> THEN Ok(items)
    ELSE LET rs == [i \in DOMAIN items |->
                       _match_record_filters(RecordDict(items[i]), filters)]
             bad == {i \in DOMAIN items : ~rs[i].ok}
         IN  IF bad # {} THEN rs[CHOOSE i \in bad : \A j \in bad : i <= j]
             ELSE Ok(SelectSeq(items, LAMBDA r :
                        _match_record_filters(RecordDict(r), filters).val))

\* fm.query_sites(filters=None, limit=fm_limit, offset=0): the backend's
\* first fm_limit records, all of them without a limit
FetchLive(records, fm_limit) ==
    IF fm_limit.isnone THEN records
    ELSE Slice(records, 0, Max(0, fm_limit.v))

\* items: list(snap.sites) when CACHE is set and the snapshot is not empty,
\* else the live fetch limited to max_fetch_for_sort (with a sort) or to
\* the request's limit (without)
ServedItems(cache, records, sort, limit) ==
    IF cache = "wired" /\ records # <<>> THEN records
    ELSE FetchLive(records, IF sort.isdict THEN IntOf(MaxFetchForSort) ELSE limit)

query_sites(cache, records, filters, sort, limit, offset) ==
    LET filtered == apply_filters(ServedItems(cache, records, sort, limit), filters)
    IN  IF ~filtered.ok THEN filtered
        ELSE Ok(paginate(apply_sort(filtered.val, sort), limit, offset))

QueryFilters ==
    {<<>>, <<Clause("v", Lit(VInt(1)))>>,
     <<Clause("v", Mapping(<<Op("gte", Lit(VInt(2)))>>))>>,
     <<Clause("v", Mapping(<<Op("near", Lit(VInt(2)))>>))>>}

QuerySorts == {NoSort, [isdict |-> TRUE, field |-> "v", direction |-> "desc"]}

QueryLimits == {NoInt, IntOf(1), IntOf(2)}

QueryOffsets == {IntOf(0), IntOf(1)}

QueryInit ==
    /\ PassIdle /\ PairIdle
    /\ fin \in [records : RecordLists, filters : QueryFilters, sort : QuerySorts,
                limit : QueryLimits, offset : QueryOffsets]
    /\ fout = Pending

\* the same request served without a cache and from a snapshot of the
\* same records
Query ==
    /\ fout.err = "pending"
    /\ fout' = Ok([live |-> query_sites("unwired", fin.records, fin.filters,
                                        fin.sort, fin.limit, fin.offset),
                   cached |-> query_sites("wired", fin.records, fin.filters,
                                          fin.sort, fin.limit, fin.offset)])
    /\ UNCHANGED <<fin, passvars, pairvars>>

QueryNext == Query

SpecQuery == QueryInit /\ [][QueryNext]_vars

\* C30: for the same records and the same filters, sort, limit and offset,
\* the query served by a live fetch returns the same items in the same
\* order as the query served from the cached snapshot.
C30_LiveEqualsCached ==
    fout.err # "pending" =>
        /\ fout.val.live.ok = fout.val.cached.ok
        /\ fout.val.live.err = fout.val.cached.err
        /\ fout.val.live.ok => fout.val.live.val.items = fout.val.cached.val.items

====
